---------------------------- MODULE Spec2Model ----------------------------
(***************************************************************************)
(* A model of the MINT encoder and decoder                                 *)
(* (packages/mint/src/index.ts).                                           *)
(*                                                                         *)
(* Text is a sequence of characters, each character a one-element TLA+     *)
(* string; a JSON value is a tagged record.  encode and decode             *)
(* are pure functions of their arguments, so they are operators, and the   *)
(* specifications below draw the arguments from bounded sets and apply     *)
(* the operators in steps.                                                 *)
(***************************************************************************)
EXTENDS Integers, Sequences, FiniteSets, TLC

VARIABLES
    pc,       \* position of the caller: which calls have returned
    x,        \* the JSON value handed to encode / formatPrimitive
    doc,      \* what x was built from: x's objects with their entries in
              \* the order they were inserted
    opts,     \* the options of the call: EncodeOptions [indent, compact,
              \* sortKeys], or DecodeOptions [strict, indent]
    inTable,  \* formatPrimitive's inTable argument
    text,     \* a MINT text: encode's result, or decode's input
    out,      \* what decode / parsePrimitive returned for text
    text2,    \* a second MINT text: text with one line inserted or removed
    ins,      \* the line inserted into text, or taken out of it, to make
              \* text2: [pos, line]
    out2,     \* what a second call of decode returned: for text2, or for
              \* text under the options opts
    tbl,      \* a call of parseTable: [start, indent, value, endIndex]
    res,      \* what validate returned for text: [valid, errors]
    stack,    \* the calls of parseDocument in progress, the innermost last:
              \* [baseIndent, start, i, result, key] with the cursor i
    inputLines \* decode's lines, each with what parseDocument reads of it

vars == <<pc, x, doc, opts, inTable, text, out, text2, ins, out2, tbl, res, stack, inputLines>>

-----------------------------------------------------------------------------
(* Characters *)

SP  == " "
NL  == "\n"
CR  == "\r"
TAB == "\t"
BS  == "\\"
DQ  == "\""
\* The five symbols of REVERSE_SYMBOLS; each is one character of the text.
CHECK     == "U+2713"
CROSS     == "U+2717"
HOURGLASS == "U+23F3"
WARNSIGN  == "U+26A0"
QMARK     == "?"

Digits == <<"0", "1", "2", "3", "4", "5", "6", "7", "8", "9">>
IsDigit(c) == \E i \in 1..10 : Digits[i] = c
DigitVal(c) == (CHOOSE i \in 1..10 : Digits[i] = c) - 1

\* String.prototype.trim's white space, as far as the texts here hold it.
IsWS(c) == c \in {SP, TAB, NL, CR}

UpperCase == <<"A","B","C","D","E","F","G","H","I","J","K","L","M",
               "N","O","P","Q","R","S","T","U","V","W","X","Y","Z">>
LowerCase == <<"a","b","c","d","e","f","g","h","i","j","k","l","m",
               "n","o","p","q","r","s","t","u","v","w","x","y","z">>
LowerChar(c) ==
    IF \E i \in 1..26 : UpperCase[i] = c
    THEN LowerCase[CHOOSE i \in 1..26 : UpperCase[i] = c]
    ELSE c

\* The characters in UTF-16 code unit order (what Array.prototype.sort and
\* the < of strings compare by).
CodeOrder ==
    <<TAB, NL, CR, SP, DQ, "#", "+", ",", "-", ".", "/">> \o Digits \o
    <<":", "?">> \o UpperCase \o <<"[", BS, "]", "_">> \o LowerCase \o
    <<"|", CHECK, CROSS, HOURGLASS, WARNSIGN>>
Code(c) == CHOOSE i \in 1..Len(CodeOrder) : CodeOrder[i] = c

-----------------------------------------------------------------------------
(* Strings and arrays of JavaScript *)

Min(S) == CHOOSE m \in S : \A n \in S : m <= n
Max(S) == CHOOSE m \in S : \A n \in S : m >= n

\* s.length - s.trimStart().length
LeadingWS(s) ==
    LET nonws == {i \in 1..Len(s) : ~IsWS(s[i])}
    IN  IF nonws = {} THEN Len(s) ELSE Min(nonws) - 1

TrimStart(s) == SubSeq(s, LeadingWS(s) + 1, Len(s))

Trim(s) ==
    LET nonws == {i \in 1..Len(s) : ~IsWS(s[i])}
    IN  IF nonws = {} THEN <<>> ELSE SubSeq(s, Min(nonws), Max(nonws))

StartsWith(s, p) == Len(s) >= Len(p) /\ SubSeq(s, 1, Len(p)) = p
EndsWith(s, p) == Len(s) >= Len(p) /\ SubSeq(s, Len(s) - Len(p) + 1, Len(s)) = p

\* s.indexOf(sub), 1-based; 0 when sub does not occur (JavaScript's -1).
IndexOf(s, sub) ==
    LET at == {i \in 1..(Len(s) - Len(sub) + 1) : SubSeq(s, i, i + Len(sub) - 1) = sub}
    IN  IF at = {} THEN 0 ELSE Min(at)

Includes(s, sub) == IndexOf(s, sub) # 0

\* s.split(sep) for a non-empty separator
RECURSIVE Split(_, _)
Split(s, sep) ==
    LET i == IndexOf(s, sep)
    IN  IF i = 0 THEN <<s>>
        ELSE <<SubSeq(s, 1, i - 1)>> \o Split(SubSeq(s, i + Len(sep), Len(s)), sep)

\* parts.join(sep)
RECURSIVE Join(_, _)
Join(parts, sep) ==
    IF Len(parts) = 0 THEN <<>>
    ELSE IF Len(parts) = 1 THEN parts[1]
    ELSE parts[1] \o sep \o Join(Tail(parts), sep)

\* s.replace(/from/g, to) for a literal, non-empty from
RECURSIVE ReplaceAll(_, _, _)
ReplaceAll(s, from, to) ==
    LET i == IndexOf(s, from)
    IN  IF i = 0 THEN s
        ELSE SubSeq(s, 1, i - 1) \o to \o
             ReplaceAll(SubSeq(s, i + Len(from), Len(s)), from, to)

\* ' '.repeat(n)
Spaces(n) == [i \in 1..n |-> SP]

\* a.slice(1, -1) of an array or a string
Slice1(a) == SubSeq(a, 2, Len(a) - 1)

\* s.toLowerCase()
ToLowerCase(s) == [i \in 1..Len(s) |-> LowerChar(s[i])]

\* s < t by code units
RECURSIVE StrLess(_, _)
StrLess(s, t) ==
    IF Len(t) = 0 THEN FALSE
    ELSE IF Len(s) = 0 THEN TRUE
    ELSE IF s[1] # t[1] THEN Code(s[1]) < Code(t[1])
    ELSE StrLess(Tail(s), Tail(t))

\* keys.sort(): an array of distinct strings in ascending code unit order
RECURSIVE SortStrings(_)
SortStrings(a) ==
    IF Len(a) = 0 THEN <<>>
    ELSE LET m == CHOOSE i \in 1..Len(a) : \A j \in 1..Len(a) : ~StrLess(a[j], a[i])
             rest == [j \in 1..(Len(a) - 1) |-> IF j < m THEN a[j] ELSE a[j + 1]]
         IN  <<a[m]>> \o SortStrings(rest)

-----------------------------------------------------------------------------
(* JsonValue: string | number | boolean | null | JsonValue[] | object *)

\* A number is m * 10^e with m not divisible by 10 (0 is <<0, 0>>): the
\* decimal value that String(n) prints and Number(text) reads.  An object
\* is the sequence of its entries [k, v] in Object.keys order, keys distinct.
Null    == [t |-> "null"]
Bool(b) == [t |-> "bool", v |-> b]
Num(m, e) == [t |-> "num", v |-> <<m, e>>]
Str(s)  == [t |-> "str", v |-> s]
Arr(a)  == [t |-> "arr", v |-> a]
Obj(es) == [t |-> "obj", v |-> es]

IsNull(val) == val.t = "null"
IsStr(val)  == val.t = "str"
IsArr(val)  == val.t = "arr"
IsObj(val)  == val.t = "obj"

\* Object.keys(obj), Object.values(obj)
ObjectKeys(obj) == [i \in 1..Len(obj.v) |-> obj.v[i].k]
ObjectValues(obj) == [i \in 1..Len(obj.v) |-> obj.v[i].v]
HasKey(obj, key) == \E i \in 1..Len(obj.v) : obj.v[i].k = key

\* obj[key] (the callers read only keys taken from some row's Object.keys;
\* a key the object lacks reads undefined, which formatPrimitive treats as
\* null)
ObjGet(obj, key) ==
    IF HasKey(obj, key)
    THEN obj.v[CHOOSE i \in 1..Len(obj.v) : obj.v[i].k = key].v
    ELSE Null

\* An array index as a property key: "0", "7", "12" (canonical decimal
\* text below 2^32 - 1).  JavaScript lists such keys first, in ascending
\* numeric order, and the other keys after them in insertion order.
IsArrayIndex(key) ==
    /\ Len(key) > 0
    /\ Len(key) <= 9
    /\ \A i \in 1..Len(key) : IsDigit(key[i])
    /\ (Len(key) > 1 => key[1] # "0")

RECURSIVE IndexValue(_)
IndexValue(key) ==
    IF Len(key) = 0 THEN 0
    ELSE IndexValue(SubSeq(key, 1, Len(key) - 1)) * 10 + DigitVal(key[Len(key)])

\* The key whose assignment sets an object's prototype, not an entry
ProtoKey == <<"_","_","p","r","o","t","o","_","_">>

\* obj[key] = val on an object created as {}: the key __proto__ adds no
\* entry; an existing key keeps its place; a new array index goes after the
\* smaller array indices; any other new key goes last
ObjSet(obj, key, val) ==
    IF key = ProtoKey THEN obj
    ELSE IF HasKey(obj, key)
    THEN Obj([i \in 1..Len(obj.v) |->
                IF obj.v[i].k = key THEN [k |-> key, v |-> val] ELSE obj.v[i]])
    ELSE IF IsArrayIndex(key)
    THEN LET before == {i \in 1..Len(obj.v) :
                          IsArrayIndex(obj.v[i].k) /\ IndexValue(obj.v[i].k) < IndexValue(key)}
             n == Cardinality(before)
         IN  Obj(SubSeq(obj.v, 1, n) \o <<[k |-> key, v |-> val]>> \o
                 SubSeq(obj.v, n + 1, Len(obj.v)))
    ELSE Obj(Append(obj.v, [k |-> key, v |-> val]))

-----------------------------------------------------------------------------
(* Numbers as text *)

RECURSIVE NatDigits(_)
NatDigits(n) ==
    IF n < 10 THEN <<Digits[n + 1]>>
    ELSE NatDigits(n \div 10) \o <<Digits[(n % 10) + 1]>>

RECURSIVE DigitsNat(_)
DigitsNat(ds) ==
    IF Len(ds) = 0 THEN 0
    ELSE DigitsNat(SubSeq(ds, 1, Len(ds) - 1)) * 10 + DigitVal(ds[Len(ds)])

AllDigits(s) == \A i \in 1..Len(s) : IsDigit(s[i])

Zeros(n) == [i \in 1..n |-> "0"]

Abs(m) == IF m < 0 THEN 0 - m ELSE m

\* The digits ds of a number with its decimal point after the n-th of them,
\* as Number::toString (radix 10) prints them
DigitsToString(ds, n) ==
    IF Len(ds) <= n /\ n <= 21 THEN ds \o Zeros(n - Len(ds))
    ELSE IF 0 < n /\ n <= 21 THEN SubSeq(ds, 1, n) \o <<".">> \o SubSeq(ds, n + 1, Len(ds))
    ELSE IF -6 < n /\ n <= 0 THEN <<"0", ".">> \o Zeros(0 - n) \o ds
    ELSE (IF Len(ds) = 1 THEN ds ELSE <<ds[1], ".">> \o SubSeq(ds, 2, Len(ds)))
           \o (IF n - 1 < 0 THEN <<"e", "-">> ELSE <<"e", "+">>) \o NatDigits(Abs(n - 1))

\* String(n) of a finite number
NumberToString(num) ==
    IF num.v[1] = 0 THEN <<"0">>
    ELSE (IF num.v[1] < 0 THEN <<"-">> ELSE <<>>)
           \o DigitsToString(NatDigits(Abs(num.v[1])),
                             Len(NatDigits(Abs(num.v[1]))) + num.v[2])

\* m * 10^e with the trailing zeros of m moved into e
RECURSIVE Normalize(_, _)
Normalize(m, e) ==
    IF m = 0 THEN Num(0, 0)
    ELSE IF m % 10 = 0 THEN Normalize(m \div 10, e + 1)
    ELSE Num(m, e)

\* The first place of s that holds a character of cs; 0 when there is none
FirstOf(s, cs) ==
    IF \E i \in 1..Len(s) : s[i] \in cs
    THEN Min({i \in 1..Len(s) : s[i] \in cs})
    ELSE 0

\* s without a leading minus sign
Unsigned(s) == IF Len(s) > 0 /\ s[1] = "-" THEN Tail(s) ELSE s

\* s up to its first e or E, at place epos (0: there is none); and after it
MantissaOf(s, epos) == IF epos = 0 THEN s ELSE SubSeq(s, 1, epos - 1)
ExponentOf(s, epos) == IF epos = 0 THEN <<>> ELSE SubSeq(s, epos + 1, Len(s))

\* s up to its first dot, at place dot (0: there is none); and after it
IntegerOf(s, dot) == IF dot = 0 THEN s ELSE SubSeq(s, 1, dot - 1)
FractionOf(s, dot) == IF dot = 0 THEN <<>> ELSE SubSeq(s, dot + 1, Len(s))

\* \d+(\.\d+)? with the first dot of s at place dot
IsDecimalAt(s, dot) ==
    /\ Len(IntegerOf(s, dot)) > 0
    /\ AllDigits(IntegerOf(s, dot))
    /\ dot # 0 => Len(FractionOf(s, dot)) > 0 /\ AllDigits(FractionOf(s, dot))

\* [+-]?\d+
IsExponentText(s) ==
    /\ Len(s) > 0
    /\ IF s[1] \in {"+", "-"} THEN Len(s) > 1 /\ AllDigits(Tail(s)) ELSE AllDigits(s)

\* \d+(\.\d+)?([eE][+-]?\d+)? with the first e or E of s at place epos
IsNumberAt(s, epos) ==
    /\ IsDecimalAt(MantissaOf(s, epos), FirstOf(MantissaOf(s, epos), {"."}))
    /\ epos # 0 => IsExponentText(ExponentOf(s, epos))

\* /^-?\d+(\.\d+)?([eE][+-]?\d+)?$/.test(s)
MatchesNumber(s) == IsNumberAt(Unsigned(s), FirstOf(Unsigned(s), {"e", "E"}))

\* The value of the exponent text [+-]?\d+, 0 for no text
ExponentValue(s) ==
    IF Len(s) = 0 THEN 0
    ELSE IF s[1] = "-" THEN 0 - DigitsNat(Tail(s))
    ELSE IF s[1] = "+" THEN DigitsNat(Tail(s))
    ELSE DigitsNat(s)

\* The value of the decimal text mant times 10^exp, mant's first dot at dot
DecimalValue(negative, mant, dot, exp) ==
    Normalize((IF negative THEN -1 ELSE 1)
                 * DigitsNat(IntegerOf(mant, dot) \o FractionOf(mant, dot)),
              exp - Len(FractionOf(mant, dot)))

\* Number(s) for a text that MatchesNumber, its first e or E at place epos
NumberAt(negative, s, epos) ==
    DecimalValue(negative, MantissaOf(s, epos), FirstOf(MantissaOf(s, epos), {"."}),
                 ExponentValue(ExponentOf(s, epos)))

ToNumber(s) ==
    NumberAt(Len(s) > 0 /\ s[1] = "-", Unsigned(s), FirstOf(Unsigned(s), {"e", "E"}))

\* isFinite(n): a double holds magnitudes below 1.8 * 10^308
IsFinite(num) ==
    num.v[1] = 0 \/ Len(NatDigits(Abs(num.v[1]))) + num.v[2] <= 308

\* \d+\.?\d* with the first dot of s at place dot
IsPlainDecimalAt(s, dot) ==
    /\ Len(IntegerOf(s, dot)) > 0
    /\ AllDigits(IntegerOf(s, dot))
    /\ AllDigits(FractionOf(s, dot))

\* /^-?\d+\.?\d*$/.test(s)
MatchesPlainDecimal(s) == IsPlainDecimalAt(Unsigned(s), FirstOf(Unsigned(s), {"."}))

-----------------------------------------------------------------------------
(* Compact-mode symbol tables *)

\* STATUS_SYMBOLS: word -> symbol
StatusWords(sym) ==
    IF sym = CHECK THEN
        {<<"c","o","m","p","l","e","t","e","d">>, <<"c","o","m","p","l","e","t","e">>,
         <<"s","u","c","c","e","s","s">>, <<"d","o","n","e">>, <<"p","a","s","s","e","d">>,
         <<"t","r","u","e">>, <<"y","e","s">>}
    ELSE IF sym = CROSS THEN
        {<<"f","a","i","l","e","d">>, <<"f","a","i","l","u","r","e">>,
         <<"e","r","r","o","r">>, <<"r","e","j","e","c","t","e","d">>,
         <<"f","a","l","s","e">>, <<"n","o">>}
    ELSE IF sym = HOURGLASS THEN
        {<<"p","e","n","d","i","n","g">>, <<"w","a","i","t","i","n","g">>,
         <<"i","n","_","p","r","o","g","r","e","s","s">>, <<"r","u","n","n","i","n","g">>}
    ELSE IF sym = WARNSIGN THEN
        {<<"w","a","r","n","i","n","g">>, <<"w","a","r","n">>}
    ELSE IF sym = QMARK THEN
        {<<"r","e","v","i","e","w">>, <<"u","n","k","n","o","w","n">>}
    ELSE {}

Symbols == {CHECK, CROSS, HOURGLASS, WARNSIGN, QMARK}

\* STATUS_SYMBOLS[word] is truthy, for the words compact mode is given: none
\* of them is a name of Object.prototype
HasStatusSymbol(word) == \E sym \in Symbols : word \in StatusWords(sym)
\* STATUS_SYMBOLS[word]
StatusSymbol(word) == CHOOSE sym \in Symbols : word \in StatusWords(sym)

\* The names every object literal inherits from Object.prototype: a lookup
\* REVERSE_SYMBOLS[name] finds the inherited function (for __proto__, the
\* prototype itself), which is truthy
ObjectPrototypeNames ==
    {<<"c","o","n","s","t","r","u","c","t","o","r">>,
     <<"t","o","S","t","r","i","n","g">>,
     <<"t","o","L","o","c","a","l","e","S","t","r","i","n","g">>,
     <<"v","a","l","u","e","O","f">>,
     <<"h","a","s","O","w","n","P","r","o","p","e","r","t","y">>,
     <<"i","s","P","r","o","t","o","t","y","p","e","O","f">>,
     <<"p","r","o","p","e","r","t","y","I","s","E","n","u","m","e","r","a","b","l","e">>,
     <<"_","_","p","r","o","t","o","_","_">>,
     <<"_","_","d","e","f","i","n","e","G","e","t","t","e","r","_","_">>,
     <<"_","_","d","e","f","i","n","e","S","e","t","t","e","r","_","_">>,
     <<"_","_","l","o","o","k","u","p","G","e","t","t","e","r","_","_">>,
     <<"_","_","l","o","o","k","u","p","S","e","t","t","e","r","_","_">>}
\* What is not a JSON value: the function or object inherited under a name
Inherited(name) == [t |-> "inherited", v |-> name]

\* REVERSE_SYMBOLS[s] is truthy
HasReverseSymbol(s) ==
    (Len(s) = 1 /\ s[1] \in Symbols) \/ s \in ObjectPrototypeNames
\* REVERSE_SYMBOLS[s]
ReverseSymbol(s) ==
    IF s[1] = CHECK THEN <<"t","r","u","e">>
    ELSE IF s[1] = CROSS THEN <<"f","a","l","s","e">>
    ELSE IF s[1] = HOURGLASS THEN <<"p","e","n","d","i","n","g">>
    ELSE IF s[1] = WARNSIGN THEN <<"w","a","r","n","i","n","g">>
    ELSE <<"u","n","k","n","o","w","n">>
\* return REVERSE_SYMBOLS[trimmed], index.ts 395-397
ReverseValue(s) ==
    IF s \in ObjectPrototypeNames THEN Inherited(s) ELSE Str(ReverseSymbol(s))

-----------------------------------------------------------------------------
(* Primitive formatting and quoting *)

\* needsQuoting(value), index.ts 82-92
needsQuoting(value) ==
    \/ value = <<>>
    \/ StartsWith(value, <<SP>>) \/ EndsWith(value, <<SP>>)
    \/ Includes(value, <<"|">>) \/ Includes(value, <<NL>>) \/ Includes(value, <<CR>>)
    \/ Includes(value, <<",">>)
    \/ MatchesPlainDecimal(value)
    \/ ToLowerCase(value) \in {<<"t","r","u","e">>, <<"f","a","l","s","e">>, <<"n","u","l","l">>}
    \/ (Includes(value, <<":">>) /\ ~Includes(value, <<":", "/", "/">>))
    \/ Includes(value, <<DQ>>)

\* escapeString(value), index.ts 97-104
escapeString(value) ==
    ReplaceAll(
      ReplaceAll(
        ReplaceAll(
          ReplaceAll(
            ReplaceAll(value, <<BS>>, <<BS, BS>>),
            <<DQ>>, <<BS, DQ>>),
          <<NL>>, <<BS, "n">>),
        <<CR>>, <<BS, "r">>),
      <<TAB>>, <<BS, "t">>)

\* unescapeString(value), index.ts 109-116
unescapeString(value) ==
    ReplaceAll(
      ReplaceAll(
        ReplaceAll(
          ReplaceAll(
            ReplaceAll(value, <<BS, "n">>, <<NL>>),
            <<BS, "r">>, <<CR>>),
          <<BS, "t">>, <<TAB>>),
        <<BS, DQ>>, <<DQ>>),
      <<BS, BS>>, <<BS>>)

\* formatPrimitive without the line that turns an empty string in a table
\* cell into a dash (index.ts 141): the empty string is quoted there too
formatPrimitiveQuotingEmptyCell(value, options, tableCell) ==
    IF value.t = "null" THEN (IF tableCell THEN <<"-">> ELSE <<"n","u","l","l">>)
    ELSE IF value.t = "bool" THEN
        (IF value.v THEN <<"t","r","u","e">> ELSE <<"f","a","l","s","e">>)
    ELSE IF value.t = "num" THEN
        (IF ~IsFinite(value) THEN <<"n","u","l","l">> ELSE NumberToString(value))
    ELSE IF options.compact /\ HasStatusSymbol(ToLowerCase(value.v))
        THEN <<StatusSymbol(ToLowerCase(value.v))>>
    ELSE IF needsQuoting(value.v) THEN <<DQ>> \o escapeString(value.v) \o <<DQ>>
    ELSE value.v

\* formatPrimitive(value, options, inTable), index.ts 121-148
formatPrimitive(value, options, tableCell) ==
    IF value.t = "null" THEN (IF tableCell THEN <<"-">> ELSE <<"n","u","l","l">>)
    ELSE IF value.t = "bool" THEN
        (IF value.v THEN <<"t","r","u","e">> ELSE <<"f","a","l","s","e">>)
    ELSE IF value.t = "num" THEN
        (IF ~IsFinite(value) THEN <<"n","u","l","l">> ELSE NumberToString(value))
    ELSE IF options.compact /\ HasStatusSymbol(ToLowerCase(value.v))
        THEN <<StatusSymbol(ToLowerCase(value.v))>>
    ELSE IF value.v = <<>> /\ tableCell THEN <<"-">>
    ELSE IF needsQuoting(value.v) THEN <<DQ>> \o escapeString(value.v) \o <<DQ>>
    ELSE value.v

\* isPrimitive(value), index.ts 153-155
isPrimitive(value) == value.t \in {"null", "str", "num", "bool"}

\* The number a numeric text reads as, or the text when it is not finite
NumberOrText(trimmed, num) == IF IsFinite(num) THEN num ELSE Str(trimmed)

\* parsePrimitive(value), index.ts 386-410, from `trimmed` on
ParseTrimmed(trimmed) ==
    IF trimmed = <<"n","u","l","l">> \/ trimmed = <<"-">> \/ trimmed = <<>> THEN Null
    ELSE IF trimmed = <<"t","r","u","e">> THEN Bool(TRUE)
    ELSE IF trimmed = <<"f","a","l","s","e">> THEN Bool(FALSE)
    ELSE IF HasReverseSymbol(trimmed) THEN ReverseValue(trimmed)
    ELSE IF StartsWith(trimmed, <<DQ>>) /\ EndsWith(trimmed, <<DQ>>)
        THEN Str(unescapeString(Slice1(trimmed)))
    ELSE IF MatchesNumber(trimmed) THEN NumberOrText(trimmed, ToNumber(trimmed))
    ELSE Str(trimmed)

\* parsePrimitive(value), index.ts 386-410
parsePrimitive(value) == ParseTrimmed(Trim(value))

-----------------------------------------------------------------------------
(* Encoder *)

\* isTableArray(arr), index.ts 160-185
isTableArray(arr) ==
    /\ Len(arr) # 0
    /\ \A i \in 1..Len(arr) : IsObj(arr[i])
    /\ LET firstKeys == Join(SortStrings(ObjectKeys(arr[1])), <<",">>)
       IN  \A i \in 1..Len(arr) :
              Join(SortStrings(ObjectKeys(arr[i])), <<",">>) = firstKeys
    /\ \A i \in 1..Len(arr) :
          \A j \in 1..Len(arr[i].v) : isPrimitive(arr[i].v[j].v)

\* isPrimitiveArray(arr), index.ts 190-192
isPrimitiveArray(arr) == \A i \in 1..Len(arr) : isPrimitive(arr[i])

\* getColumnWidths(headers, rows), index.ts 197-207
getColumnWidths(headers, rows) ==
    [i \in 1..Len(headers) |->
        Max({Len(headers[i])} \cup {Len(rows[r][i]) : r \in 1..Len(rows)})]

\* The cell as it is, not padded
padCellToNothing(value, width) == value

\* padCell(value, width), index.ts 212-214
padCell(value, width) ==
    value \o Spaces(IF width - Len(value) > 0 THEN width - Len(value) ELSE 0)

\* options.indent || 2
IndentUnit(options) == IF options.indent = 0 THEN 2 ELSE options.indent

\* indent.repeat(indentLevel)
BaseIndent(options, indentLevel) == Spaces(IndentUnit(options) * indentLevel)

\* `${baseIndent}| ${cells.join(' | ')} |`
TableLine(baseIndent, cells) ==
    baseIndent \o <<"|", SP>> \o Join(cells, <<SP, "|", SP>>) \o <<SP, "|">>

\* arr.map((obj) => headers.map((h) => formatPrimitive(obj[h], options, true)))
TableCells(arr, headers, options) ==
    [r \in 1..Len(arr) |->
        [i \in 1..Len(headers) |->
            formatPrimitive(ObjGet(arr[r], headers[i]), options, TRUE)]]

\* The header line and the row lines, every cell padded to its column
TableText(baseIndent, headers, rows, widths) ==
    Join(<<TableLine(baseIndent,
                     [i \in 1..Len(headers) |-> padCell(headers[i], widths[i])])>>
           \o [r \in 1..Len(rows) |->
                 TableLine(baseIndent,
                           [i \in 1..Len(headers) |-> padCell(rows[r][i], widths[i])])],
         <<NL>>)

\* The table of the formatted rows
PaddedTable(baseIndent, headers, rows) ==
    TableText(baseIndent, headers, rows, getColumnWidths(headers, rows))

\* encodeTable(arr, options, indentLevel), index.ts 219-243
encodeTable(arr, options, indentLevel) ==
    IF Len(arr) = 0 THEN <<"|", SP, "|">>
    ELSE PaddedTable(BaseIndent(options, indentLevel), ObjectKeys(arr[1]),
                     TableCells(arr, ObjectKeys(arr[1]), options))

\* value.map((v) => formatPrimitive(v, options)).join(', ')
InlineList(arr, options) ==
    Join([i \in 1..Len(arr) |-> formatPrimitive(arr[i], options, FALSE)], <<",", SP>>)

\* Object.keys(obj) whatever options.sortKeys is
EncodedKeysUnsorted(value, options) == ObjectKeys(value)

\* Object.keys(obj), sorted when options.sortKeys
EncodedKeys(value, options) ==
    IF options.sortKeys THEN SortStrings(ObjectKeys(value)) ELSE ObjectKeys(value)

\* The line or lines pushed for an item of a mixed array that encodes as
\* `encoded`, index.ts 278-283
ItemLines(prefix, encoded) ==
    IF Includes(encoded, <<NL>>)
    THEN prefix \o <<"-">> \o <<NL>> \o encoded
    ELSE prefix \o <<"-", SP>> \o encoded

\* The line or lines pushed for a key whose object encodes as `nested`,
\* index.ts 316-323
NestedLines(prefix, nested) ==
    IF nested = <<>> THEN prefix \o <<":">>
    ELSE IF Includes(nested, <<NL>>) THEN prefix \o <<":">> \o <<NL>> \o nested
    ELSE prefix \o <<":", SP>> \o nested

RECURSIVE encodeValue(_, _, _)

\* One item of a mixed array, index.ts 273-285
encodeItem(item, options, indentLevel) ==
    IF isPrimitive(item)
    THEN BaseIndent(options, indentLevel) \o Spaces(IndentUnit(options))
           \o <<"-", SP>> \o formatPrimitive(item, options, FALSE)
    ELSE ItemLines(BaseIndent(options, indentLevel) \o Spaces(IndentUnit(options)),
                   encodeValue(item, options, indentLevel + 2))

\* One key of an object, index.ts 299-325
encodeEntry(key, val, options, indentLevel) ==
    IF IsNull(val)
        THEN BaseIndent(options, indentLevel) \o key \o <<":", SP>> \o <<"n","u","l","l">>
    ELSE IF isPrimitive(val)
        THEN BaseIndent(options, indentLevel) \o key \o <<":", SP>>
               \o formatPrimitive(val, options, FALSE)
    ELSE IF IsArr(val) THEN
        (IF Len(val.v) = 0
             THEN BaseIndent(options, indentLevel) \o key \o <<":", SP, "[", "]">>
         ELSE IF isPrimitiveArray(val.v)
             THEN BaseIndent(options, indentLevel) \o key \o <<":", SP>>
                    \o InlineList(val.v, options)
         ELSE BaseIndent(options, indentLevel) \o key \o <<":">>
                \o encodeValue(val, options, indentLevel))
    ELSE NestedLines(BaseIndent(options, indentLevel) \o key,
                     encodeValue(val, options, indentLevel + 1))

\* The lines of an object with the keys `keys`, index.ts 293-327
ObjectLines(value, keys, options, indentLevel) ==
    IF Len(keys) = 0 THEN <<>>
    ELSE Join([i \in 1..Len(keys) |->
                  encodeEntry(keys[i], ObjGet(value, keys[i]), options, indentLevel)],
              <<NL>>)

\* encodeValue(value, options, indentLevel), index.ts 248-328
encodeValue(value, options, indentLevel) ==
    IF isPrimitive(value) THEN formatPrimitive(value, options, FALSE)
    ELSE IF IsArr(value) THEN
        (IF Len(value.v) = 0 THEN <<"[", "]">>
         ELSE IF isPrimitiveArray(value.v) THEN InlineList(value.v, options)
         ELSE IF isTableArray(value.v)
             THEN <<NL>> \o encodeTable(value.v, options, indentLevel + 1)
         ELSE <<NL>> \o Join([i \in 1..Len(value.v) |->
                                 encodeItem(value.v[i], options, indentLevel)],
                             <<NL>>))
    ELSE ObjectLines(value, EncodedKeys(value, options), options, indentLevel)

\* encode(value, options), index.ts 353-381
encode(value, options) ==
    IF IsNull(value) THEN <<"n","u","l","l">>
    ELSE IF isPrimitive(value) THEN formatPrimitive(value, options, FALSE)
    ELSE IF IsArr(value) THEN
        (IF Len(value.v) = 0 THEN <<"_", ":", SP, "[", "]">>
         ELSE IF isPrimitiveArray(value.v) THEN <<"_", ":", SP>> \o InlineList(value.v, options)
         ELSE IF isTableArray(value.v)
             THEN <<"_", ":", NL>> \o encodeTable(value.v, options, 1)
         ELSE <<"_", ":">> \o encodeValue(value, options, 0))
    ELSE encodeValue(value, options, 0)

-----------------------------------------------------------------------------
(* Decoder.  Line indices are 1-based here: lines[1] is the source's       *)
(* lines[0], and "i < lines.length" reads i <= Len(lines).                 *)

\* A line of whitespace only
IsBlankLine(line) == Trim(line) = <<>>

\* l.trim() === '' || l.trim().startsWith('#')
IsBlankOrComment(line) ==
    Trim(line) = <<>> \/ StartsWith(Trim(line), <<"#">>)

\* trimmed.split('|').slice(1, -1).map((c) => c.trim())
SplitCells(trimmed) ==
    LET parts == Slice1(Split(trimmed, <<"|">>))
    IN  [i \in 1..Len(parts) |-> Trim(parts[i])]

\* headers.forEach((h, idx) => { row[h] = cells[idx]; }), index.ts 455-458
RECURSIVE RowUpTo(_, _, _)
RowUpTo(headers, cells, n) ==
    IF n = 0 THEN Obj(<<>>)
    ELSE ObjSet(RowUpTo(headers, cells, n - 1), headers[n], cells[n])

\* trimmed.split('|').slice(1, -1).map((c) => parsePrimitive(c.trim()))
RowCells(texts) == [c \in 1..Len(texts) |-> parsePrimitive(texts[c])]

\* The rows read so far and, when it has a cell for every header, the row
\* of `cells`, index.ts 454-460
WithRow(result, headers, cells) ==
    IF Len(cells) = Len(headers)
    THEN Append(result, RowUpTo(headers, cells, Len(headers)))
    ELSE result

\* The row loop of parseTable with a break where the code skips: a line
\* whose cell count differs from the header's ends the table
RECURSIVE TableRowsUntilMismatch(_, _, _, _, _)
TableRowsUntilMismatch(lines, i, indent, headers, result) ==
    IF i > Len(lines) THEN [value |-> Arr(result), endIndex |-> i - 1]
    ELSE IF ~StartsWith(Trim(lines[i]), <<"|">>)
        THEN [value |-> Arr(result), endIndex |-> i - 1]
    ELSE IF LeadingWS(lines[i]) < indent /\ Trim(lines[i]) # <<>>
        THEN [value |-> Arr(result), endIndex |-> i - 1]
    ELSE IF Len(SplitCells(Trim(lines[i]))) # Len(headers)
        THEN [value |-> Arr(result), endIndex |-> i - 1]
    ELSE TableRowsUntilMismatch(lines, i + 1, indent, headers,
                   WithRow(result, headers, RowCells(SplitCells(Trim(lines[i])))))

\* The row loop of parseTable, index.ts 436-465, from line i on
RECURSIVE TableRows(_, _, _, _, _)
TableRows(lines, i, indent, headers, result) ==
    IF i > Len(lines) THEN [value |-> Arr(result), endIndex |-> i - 1]
    ELSE IF ~StartsWith(Trim(lines[i]), <<"|">>)
        THEN [value |-> Arr(result), endIndex |-> i - 1]
    ELSE IF LeadingWS(lines[i]) < indent /\ Trim(lines[i]) # <<>>
        THEN [value |-> Arr(result), endIndex |-> i - 1]
    ELSE TableRows(lines, i + 1, indent, headers,
                   WithRow(result, headers, RowCells(SplitCells(Trim(lines[i])))))

\* parseTable(lines, startIndex, indent), index.ts 415-466
parseTable(lines, startIndex, indent) ==
    IF ~StartsWith(Trim(lines[startIndex]), <<"|">>)
    THEN [value |-> Arr(<<>>), endIndex |-> startIndex]
    ELSE TableRows(lines, startIndex + 1, indent, SplitCells(Trim(lines[startIndex])), <<>>)

\* while (nextIdx < lines.length && lines[nextIdx].trim() === '') nextIdx++
RECURSIVE SkipBlank(_, _)
SkipBlank(lines, nextIdx) ==
    IF nextIdx <= Len(lines) /\ Trim(lines[nextIdx]) = <<>>
    THEN SkipBlank(lines, nextIdx + 1)
    ELSE nextIdx

\* parts.map((v) => parsePrimitive(v.trim()))
ParseParts(parts) == Arr([i \in 1..Len(parts) |-> parsePrimitive(Trim(parts[i]))])

\* valueStr.split(sep).map((v) => parsePrimitive(v.trim()))
SplitList(valueStr, sep) == ParseParts(Split(valueStr, sep))

\* The value of a key with text after its colon, index.ts 552-565
InlineValue(valueStr) ==
    IF StartsWith(valueStr, <<DQ>>) /\ EndsWith(valueStr, <<DQ>>) THEN parsePrimitive(valueStr)
    ELSE IF Includes(valueStr, <<SP, "|", SP>>) THEN SplitList(valueStr, <<SP, "|", SP>>)
    ELSE IF Includes(valueStr, <<",", SP>>) THEN SplitList(valueStr, <<",", SP>>)
    ELSE parsePrimitive(valueStr)

\* trimmed.slice(0, colonIndex).trim() and trimmed.slice(colonIndex + 1).trim()
KeyAt(trimmed, colonIndex) == Trim(SubSeq(trimmed, 1, colonIndex - 1))
ValueAt(trimmed, colonIndex) == Trim(SubSeq(trimmed, colonIndex + 1, Len(trimmed)))

RECURSIVE parseDocument(_, _, _, _, _)

\* result[key] = found.value and the loop goes on from line `from`
Continue(lines, from, baseIndent, options, result, key, value) ==
    parseDocument(lines, from, baseIndent, options, ObjSet(result, key, value))

\* index.ts 535-537: the table found under the key
AfterTable(lines, baseIndent, options, result, key, tableResult) ==
    Continue(lines, tableResult.endIndex + 1, baseIndent, options, result, key,
             tableResult.value)

\* index.ts 541-543: the nested object found under the key
AfterNested(lines, baseIndent, options, result, key, nestedResult) ==
    Continue(lines, nestedResult.endIndex, baseIndent, options, result, key,
             nestedResult.value)

\* A key with nothing or [] after its colon, the first line after it that
\* is not blank being nextIdx, index.ts 528-551
LookAhead(lines, i, baseIndent, options, result, key, valueStr, nextIdx) ==
    IF nextIdx <= Len(lines) /\ LeadingWS(lines[nextIdx]) > baseIndent
         /\ StartsWith(Trim(lines[nextIdx]), <<"|">>)
        THEN AfterTable(lines, baseIndent, options, result, key,
                        parseTable(lines, nextIdx, LeadingWS(lines[nextIdx])))
    ELSE IF nextIdx <= Len(lines) /\ LeadingWS(lines[nextIdx]) > baseIndent
         /\ Trim(lines[nextIdx]) # <<>> /\ ~StartsWith(Trim(lines[nextIdx]), <<"#">>)
        THEN AfterNested(lines, baseIndent, options, result, key,
                         parseDocument(lines, nextIdx, LeadingWS(lines[nextIdx]), options,
                                       Obj(<<>>)))
    ELSE Continue(lines, i + 1, baseIndent, options, result, key,
                  IF valueStr = <<"[", "]">> THEN Arr(<<>>) ELSE Obj(<<>>))

\* KeyLine with a slip: a more indented line under a key that has a
\* value is read as the key's nested block
KeyLineNestingUnderValue(lines, i, baseIndent, options, result, key, valueStr) ==
    IF valueStr = <<>> \/ valueStr = <<"[", "]">>
         \/ (SkipBlank(lines, i + 1) <= Len(lines)
               /\ LeadingWS(lines[SkipBlank(lines, i + 1)]) > baseIndent)
    THEN LookAhead(lines, i, baseIndent, options, result, key, valueStr,
                   SkipBlank(lines, i + 1))
    ELSE Continue(lines, i + 1, baseIndent, options, result, key, InlineValue(valueStr))

\* A line `key: valueStr` at this level, index.ts 518-565
KeyLine(lines, i, baseIndent, options, result, key, valueStr) ==
    IF valueStr = <<>> \/ valueStr = <<"[", "]">>
    THEN LookAhead(lines, i, baseIndent, options, result, key, valueStr,
                   SkipBlank(lines, i + 1))
    ELSE Continue(lines, i + 1, baseIndent, options, result, key, InlineValue(valueStr))

\* A line at this level that is no table row, its first colon at
\* colonIndex, index.ts 509-516
ColonLine(lines, i, baseIndent, options, result, trimmed, colonIndex) ==
    IF colonIndex = 0 THEN parseDocument(lines, i + 1, baseIndent, options, result)
    ELSE KeyLine(lines, i, baseIndent, options, result,
                 KeyAt(trimmed, colonIndex), ValueAt(trimmed, colonIndex))

\* parseDocument with a strict mode that the code does not have: under
\* options.strict a line indented more than the block ends the block
parseDocumentStrictIndent(lines, i, baseIndent, options, result) ==
    IF i > Len(lines) THEN [value |-> result, endIndex |-> i]
    ELSE IF IsBlankOrComment(lines[i])
        THEN parseDocument(lines, i + 1, baseIndent, options, result)
    ELSE IF LeadingWS(lines[i]) < baseIndent THEN [value |-> result, endIndex |-> i]
    ELSE IF options.strict /\ LeadingWS(lines[i]) > baseIndent
        THEN [value |-> result, endIndex |-> Len(lines) + 1]
    ELSE IF LeadingWS(lines[i]) > baseIndent \/ StartsWith(Trim(lines[i]), <<"|">>)
        THEN parseDocument(lines, i + 1, baseIndent, options, result)
    ELSE ColonLine(lines, i, baseIndent, options, result,
                   Trim(lines[i]), IndexOf(Trim(lines[i]), <<":">>))

\* parseDocument(lines, startIndex, baseIndent, options), index.ts 471-569:
\* the loop from line i on, with the entries read so far in result
parseDocument(lines, i, baseIndent, options, result) ==
    IF i > Len(lines) THEN [value |-> result, endIndex |-> i]
    ELSE IF IsBlankOrComment(lines[i])
        THEN parseDocument(lines, i + 1, baseIndent, options, result)
    ELSE IF LeadingWS(lines[i]) < baseIndent THEN [value |-> result, endIndex |-> i]
    ELSE IF LeadingWS(lines[i]) > baseIndent \/ StartsWith(Trim(lines[i]), <<"|">>)
        THEN parseDocument(lines, i + 1, baseIndent, options, result)
    ELSE ColonLine(lines, i, baseIndent, options, result,
                   Trim(lines[i]), IndexOf(Trim(lines[i]), <<":">>))

\* input.replace(/\r\n/g, '\n').replace(/\r/g, '\n').split('\n')
SplitLines(input) ==
    Split(ReplaceAll(ReplaceAll(input, <<CR, NL>>, <<NL>>), <<CR>>, <<NL>>), <<NL>>)

\* The first line at or after startIndex that is neither blank nor a
\* comment, index.ts 605-611
RECURSIVE SkipBlankOrComment(_, _)
SkipBlankOrComment(lines, startIndex) ==
    IF startIndex <= Len(lines) /\ IsBlankOrComment(lines[startIndex])
    THEN SkipBlankOrComment(lines, startIndex + 1)
    ELSE startIndex

\* A root line `_:` with valueStr after it, index.ts 624-636
RootArray(lines, startIndex, valueStr) ==
    IF valueStr = <<>> \/ valueStr = <<"[", "]">> THEN
        (IF startIndex + 1 <= Len(lines) /\ lines[startIndex + 1] # <<>>
              /\ StartsWith(Trim(lines[startIndex + 1]), <<"|">>)
         THEN parseTable(lines, startIndex + 1, 2).value
         ELSE Arr(<<>>))
    ELSE IF Includes(valueStr, <<",", SP>>) THEN SplitList(valueStr, <<",", SP>>)
    ELSE Arr(<<parsePrimitive(valueStr)>>)

\* decode from the first line that is neither blank nor a comment,
\* index.ts 613-640
DecodeFrom(lines, startIndex, options) ==
    IF startIndex > Len(lines) THEN Obj(<<>>)
    ELSE IF StartsWith(Trim(lines[startIndex]), <<"|">>)
        THEN parseTable(lines, startIndex, 0).value
    ELSE IF StartsWith(Trim(lines[startIndex]), <<"_", ":">>)
        THEN RootArray(lines, startIndex,
                       Trim(SubSeq(Trim(lines[startIndex]), 3,
                                   Len(Trim(lines[startIndex])))))
    ELSE parseDocument(lines, startIndex, 0, options, Obj(<<>>)).value

\* decode of the lines of the input, index.ts 601-640
DecodeLines(lines, options) ==
    IF \A l \in 1..Len(lines) : IsBlankOrComment(lines[l]) THEN Obj(<<>>)
    ELSE DecodeFrom(lines, SkipBlankOrComment(lines, 1), options)

\* decode(input, options), index.ts 591-641
decode(input, options) == DecodeLines(SplitLines(input), options)

\* The text is one for the object-block parser: its first line that is
\* neither blank nor a comment starts neither with a pipe nor with _:
IsForObjectParser(lines) ==
    \E f \in 1..Len(lines) :
        /\ ~IsBlankOrComment(lines[f])
        /\ \A g \in 1..(f - 1) : IsBlankOrComment(lines[g])
        /\ ~StartsWith(Trim(lines[f]), <<"|">>)
        /\ ~StartsWith(Trim(lines[f]), <<"_", ":">>)

\* What parseDocument reads of the line i of lines: its indentation, that
\* its trimmed text is empty, starts with #, | or _:, has a colon, the key
\* and valueStr around its first colon, the value read from valueStr, and
\* the table that parseTable reads from it on
LineFacts(lines, i) ==
    [indent |-> LeadingWS(lines[i]),
     empty |-> Trim(lines[i]) = <<>>,
     comment |-> StartsWith(Trim(lines[i]), <<"#">>),
     pipe |-> StartsWith(Trim(lines[i]), <<"|">>),
     marker |-> StartsWith(Trim(lines[i]), <<"_", ":">>),
     colon |-> Includes(Trim(lines[i]), <<":">>),
     key |-> KeyAt(Trim(lines[i]), IndexOf(Trim(lines[i]), <<":">>)),
     valueStr |-> ValueAt(Trim(lines[i]), IndexOf(Trim(lines[i]), <<":">>)),
     value |-> InlineValue(ValueAt(Trim(lines[i]), IndexOf(Trim(lines[i]), <<":">>))),
     table |-> parseTable(lines, i, LeadingWS(lines[i]))]
Scan(lines) == [i \in 1..Len(lines) |-> LineFacts(lines, i)]

\* parseDocument one pass of its loop at a time, over the scanned lines.
\* A call in progress is [baseIndent, start, i, result, key]: startIndex
\* as start, the cursor i, and the key whose nested block an inner call
\* is reading
Frame(baseIndent, startIndex) ==
    [baseIndent |-> baseIndent, start |-> startIndex, i |-> startIndex,
     result |-> Obj(<<>>), key |-> <<>>]

\* The loop of the call f ends at its cursor: i is past the last line, or
\* the line is dedented, index.ts 480 and 490-492
BlockEnds(scanned, f) ==
    IF f.i > Len(scanned) THEN TRUE
    ELSE /\ ~scanned[f.i].empty
         /\ ~scanned[f.i].comment
         /\ scanned[f.i].indent < f.baseIndent

\* The line at the cursor is passed over: blank, a comment, more indented,
\* a table row or without a colon, index.ts 483-512
IsSkipped(scanned, f) ==
    \/ scanned[f.i].empty
    \/ scanned[f.i].comment
    \/ scanned[f.i].indent > f.baseIndent
    \/ scanned[f.i].pipe
    \/ ~scanned[f.i].colon

\* nextIdx: the first line after the cursor that is not blank, index.ts 521-526
NextIdx(scanned, f) ==
    Min({j \in (f.i + 1)..Len(scanned) : ~scanned[j].empty} \cup {Len(scanned) + 1})

\* The key at the cursor has nothing or [] after its colon and a more
\* indented line follows: a table, index.ts 533, or a nested block,
\* index.ts 539
FindsBlock(scanned, f) ==
    /\ scanned[f.i].valueStr \in {<<>>, <<"[", "]">>}
    /\ NextIdx(scanned, f) <= Len(scanned)
    /\ scanned[NextIdx(scanned, f)].indent > f.baseIndent
FindsTable(scanned, f) ==
    FindsBlock(scanned, f) /\ scanned[NextIdx(scanned, f)].pipe
FindsNested(scanned, f) ==
    /\ FindsBlock(scanned, f)
    /\ ~scanned[NextIdx(scanned, f)].pipe
    /\ ~scanned[NextIdx(scanned, f)].comment

\* result[key] = value; i = cursor
Assigned(f, key, value, cursor) ==
    [f EXCEPT !.result = ObjSet(f.result, key, value), !.i = cursor]

\* One pass of the loop that makes no inner call, index.ts 480-566: the
\* line is passed over, or its key gets the table read from nextIdx on
\* (i = tableResult.endIndex + 1), {} or [], or the value after the colon
AfterLine(scanned, f) ==
    IF IsSkipped(scanned, f) THEN [f EXCEPT !.i = f.i + 1]
    ELSE IF FindsTable(scanned, f)
        THEN Assigned(f, scanned[f.i].key, scanned[NextIdx(scanned, f)].table.value,
                      scanned[NextIdx(scanned, f)].table.endIndex + 1)
    ELSE IF scanned[f.i].valueStr = <<>>
        THEN Assigned(f, scanned[f.i].key, Obj(<<>>), f.i + 1)
    ELSE IF scanned[f.i].valueStr = <<"[", "]">>
        THEN Assigned(f, scanned[f.i].key, Arr(<<>>), f.i + 1)
    ELSE Assigned(f, scanned[f.i].key, scanned[f.i].value, f.i + 1)

\* The caller forgets to move its cursor to where the nested call ended
ReturnedWithoutCursor(f, nested) ==
    [f EXCEPT !.result = ObjSet(f.result, f.key, nested.result)]

\* The caller goes on from the line after the one that ended the nested
\* call, as it does after a table
ReturnedPastLine(f, nested) ==
    Assigned(f, f.key, nested.result, nested.i + 1)

\* result[key] = nestedResult.value; i = nestedResult.endIndex, index.ts 541-543
Returned(f, nested) ==
    Assigned(f, f.key, nested.result, nested.i)

-----------------------------------------------------------------------------
(* Deep equality of JSON values: entries of an object in any order *)

RECURSIVE JsonEq(_, _)
JsonEq(a, b) ==
    IF a.t # b.t THEN FALSE
    ELSE IF a.t = "arr" THEN
        Len(a.v) = Len(b.v) /\ \A i \in 1..Len(a.v) : JsonEq(a.v[i], b.v[i])
    ELSE IF a.t = "obj" THEN
        /\ Len(a.v) = Len(b.v)
        /\ \A i \in 1..Len(a.v) :
              HasKey(b, a.v[i].k) /\ JsonEq(a.v[i].v, ObjGet(b, a.v[i].k))
    ELSE a = b

-----------------------------------------------------------------------------
(* The validator, index.ts 649-711.  An error is the record [line, column,
   message, context] of the interface ValidationError. *)

\* `Inconsistent indentation: ${indent} spaces (should be multiple of 2)`
IndentationMessage(indent) ==
    <<"I","n","c","o","n","s","i","s","t","e","n","t",SP,"i","n","d",
      "e","n","t","a","t","i","o","n",":",SP>>
      \o NatDigits(indent) \o
    <<SP,"s","p","a","c","e","s",SP,"(","s","h","o","u","l","d",SP,"b",
      "e",SP,"m","u","l","t","i","p","l","e",SP,"o","f",SP,"2",")">>

\* `Table column mismatch: expected ${tableColumns - 1} columns, got ${pipes - 1}`
MismatchMessage(tableColumns, pipes) ==
    <<"T","a","b","l","e",SP,"c","o","l","u","m","n",SP,"m","i","s","m",
      "a","t","c","h",":",SP,"e","x","p","e","c","t","e","d",SP>>
      \o NatDigits(tableColumns - 1) \o
    <<SP,"c","o","l","u","m","n","s",",",SP,"g","o","t",SP>>
      \o NatDigits(pipes - 1)

\* 'Table row must end with |'
TerminatorMessage ==
    <<"T","a","b","l","e",SP,"r","o","w",SP,"m","u","s","t",SP,"e","n",
      "d",SP,"w","i","t","h",SP,"|">>

\* IndentErrors with the index i of the loop as the line number
IndentErrorsZeroBased(line, lineNum, indent) ==
    IF indent % 2 # 0
    THEN <<[line |-> lineNum - 1, column |-> 1,
            message |-> IndentationMessage(indent), context |-> line]>>
    ELSE <<>>

\* if (indent % 2 !== 0) errors.push(...), index.ts 665-674
IndentErrors(line, lineNum, indent) ==
    IF indent % 2 # 0
    THEN <<[line |-> lineNum, column |-> 1,
            message |-> IndentationMessage(indent), context |-> line]>>
    ELSE <<>>

\* trimmed.split('|').length - 1
Pipes(trimmed) == Len(Split(trimmed, <<"|">>)) - 1

\* MismatchErrors with > for !==: a row with too few cells passes
MismatchErrorsForMoreOnly(line, lineNum, inTableNow, tableColumns, pipes) ==
    IF inTableNow /\ pipes > tableColumns
    THEN <<[line |-> lineNum, column |-> 1,
            message |-> MismatchMessage(tableColumns, pipes), context |-> line]>>
    ELSE <<>>

\* else if (pipes !== tableColumns) errors.push(...), index.ts 679-691
MismatchErrors(line, lineNum, inTableNow, tableColumns, pipes) ==
    IF inTableNow /\ pipes # tableColumns
    THEN <<[line |-> lineNum, column |-> 1,
            message |-> MismatchMessage(tableColumns, pipes), context |-> line]>>
    ELSE <<>>

\* if (!trimmed.endsWith('|')) errors.push(...), index.ts 693-700
TerminatorErrors(line, lineNum, trimmed) ==
    IF ~EndsWith(trimmed, <<"|">>)
    THEN <<[line |-> lineNum, column |-> Len(trimmed),
            message |-> TerminatorMessage, context |-> line]>>
    ELSE <<>>

\* The loop with a blank or comment line ending the run of table lines
RECURSIVE ValidateFromBlankEndsRun(_, _, _, _, _)
ValidateFromBlankEndsRun(lines, i, inTableNow, tableColumns, errors) ==
    IF i > Len(lines) THEN errors
    ELSE IF IsBlankOrComment(lines[i])
        THEN ValidateFromBlankEndsRun(lines, i + 1, FALSE, 0, errors)
    ELSE IF StartsWith(Trim(lines[i]), <<"|">>)
        THEN ValidateFromBlankEndsRun(lines, i + 1, TRUE,
                 IF inTableNow THEN tableColumns ELSE Pipes(Trim(lines[i])),
                 errors \o IndentErrors(lines[i], i, LeadingWS(lines[i]))
                        \o MismatchErrors(lines[i], i, inTableNow, tableColumns,
                                          Pipes(Trim(lines[i])))
                        \o TerminatorErrors(lines[i], i, Trim(lines[i])))
    ELSE ValidateFromBlankEndsRun(lines, i + 1, FALSE, 0,
             errors \o IndentErrors(lines[i], i, LeadingWS(lines[i])))

\* The body of the loop for the line i, from line i on, with the tracking
\* state inTable, tableColumns and the errors pushed so far
RECURSIVE ValidateFrom(_, _, _, _, _)
ValidateFrom(lines, i, inTableNow, tableColumns, errors) ==
    IF i > Len(lines) THEN errors
    ELSE IF IsBlankOrComment(lines[i])
        THEN ValidateFrom(lines, i + 1, inTableNow, tableColumns, errors)
    ELSE IF StartsWith(Trim(lines[i]), <<"|">>)
        THEN ValidateFrom(lines, i + 1, TRUE,
                 IF inTableNow THEN tableColumns ELSE Pipes(Trim(lines[i])),
                 errors \o IndentErrors(lines[i], i, LeadingWS(lines[i]))
                        \o MismatchErrors(lines[i], i, inTableNow, tableColumns,
                                          Pipes(Trim(lines[i])))
                        \o TerminatorErrors(lines[i], i, Trim(lines[i])))
    ELSE ValidateFrom(lines, i + 1, FALSE, 0,
             errors \o IndentErrors(lines[i], i, LeadingWS(lines[i])))

\* A result that is valid whatever was pushed
ValidationResultAlwaysValid(errors) == [valid |-> TRUE, errors |-> errors]

\* return { valid: errors.length === 0, errors }, index.ts 707-710
ValidationResult(errors) ==
    [valid |-> Len(errors) = 0, errors |-> errors]

validate(input) == ValidationResult(ValidateFrom(SplitLines(input), 1, FALSE, 0, <<>>))

-----------------------------------------------------------------------------
(* The inputs: bounded sets of JSON values, options and texts *)

MaxArr == 2      \* most elements of an input array
MaxKeys == 2     \* most keys of an input object
MaxRows == 2     \* most rows of an input table
MaxStrLen == 2   \* longest string built from PrimAlphabet
MaxLines == 3    \* most lines of an input document

DefaultOptions == [indent |-> 2, compact |-> FALSE, sortKeys |-> FALSE]
CompactOptions == [indent |-> 2, compact |-> TRUE, sortKeys |-> FALSE]
DecodeOptions == [strict |-> TRUE, indent |-> 2]

SeqsUpTo(S, n) == UNION {[1..k -> S] : k \in 0..n}
NonEmptySeqsUpTo(S, n) == UNION {[1..k -> S] : k \in 1..n}

Keys == {<<"a">>, <<"b">>, <<"c">>}
DistinctKeySeqs ==
    {ks \in SeqsUpTo(Keys, MaxKeys) : \A i, j \in 1..Len(ks) : i # j => ks[i] # ks[j]}

\* The object with keys ks and values vs, entry by entry
ObjOf(ks, vs) == Obj([i \in 1..Len(ks) |-> [k |-> ks[i], v |-> vs[i]]])

\* The objects with at most MaxKeys keys and values in V; the arrays with
\* at most MaxArr elements in V
ObjectsOver(V) ==
    UNION {{ObjOf(ks, vs) : vs \in [1..Len(ks) -> V]} : ks \in DistinctKeySeqs}
ArraysOver(V) == {Arr(a) : a \in SeqsUpTo(V, MaxArr)}

PlainLeaves == {Num(1, 0), Str(<<"x">>)}
RowLeaves == {Null, Str(<<"x">>), Str(<<>>), Str(<<"a", "|", "b">>)}
Leaves == RowLeaves \cup {Num(1, 0), Bool(TRUE), Str(<<"-">>)}

\* Objects whose values are scalars
FlatObjects == ObjectsOver(Leaves)
\* Objects whose values are plain scalars and objects of no key, of one
\* key, of two keys, and of one key that holds an object
InnerObjects ==
    {Obj(<<>>),
     ObjOf(<<<<"b">>>>, <<Num(1, 0)>>),
     ObjOf(<<<<"a">>, <<"b">>>>, <<Num(1, 0), Str(<<"x">>)>>),
     ObjOf(<<<<"a">>>>, <<ObjOf(<<<<"b">>>>, <<Num(1, 0)>>)>>)}
NestedObjects == ObjectsOver(PlainLeaves \cup InnerObjects)
\* Arrays of scalars, of row objects, of an array and of any of these, at
\* the root and under a key
RowObjects ==
    {ObjOf(<<<<"a">>>>, <<v>>) : v \in RowLeaves}
      \cup {ObjOf(<<<<"a">>, <<"b">>>>, <<v, Num(1, 0)>>) : v \in RowLeaves}
      \cup {ObjOf(<<<<"b">>>>, <<Str(<<"x">>)>>)}
Elements ==
    {Num(1, 0), Bool(TRUE), Str(<<"x">>), Null, Arr(<<Num(1, 0)>>)} \cup RowObjects
RootArrays == ArraysOver(Elements)
KeyedArrays == {Obj(<<[k |-> <<"a">>, v |-> arr]>>) : arr \in RootArrays}

Values == FlatObjects \cup NestedObjects \cup RootArrays \cup KeyedArrays

\* What SpecCells encodes: under the key k, a table whose rows share the
\* keys ks, a scalar, or an inline list of scalars; the cells are null, the
\* empty string, a dash and a plain word
Cells == {Null, Str(<<>>), Str(<<"-">>), Str(<<"x">>)}
Headers == {<<<<"a">>>>, <<<<"a">>, <<"b">>>>}
Tables ==
    UNION {{Arr([r \in 1..Len(rows) |-> ObjOf(ks, rows[r])]) :
               rows \in NonEmptySeqsUpTo([1..Len(ks) -> Cells], MaxRows)} : ks \in Headers}
CellValues ==
    {Obj(<<[k |-> <<"k">>, v |-> v]>>) :
        v \in Tables \cup Cells \cup {Arr(a) : a \in NonEmptySeqsUpTo(Cells, MaxArr)}}

\* What SpecPrim formats: the scalars that are not strings, every string of
\* at most MaxStrLen characters of PrimAlphabet, and some longer words
PrimAlphabet ==
    {"x", "n", "r", "t", "T", "1", "e", "-", ".", "|", ",", ":", "?",
     SP, DQ, BS, NL, CR, TAB, CHECK}
PrimWords ==
    {<<"t","r","u","e">>, <<"N","u","l","l">>, <<"d","o","n","e">>, <<"D","o","n","e">>,
     <<"a","|","b">>, <<"a",",",SP,"b">>, <<"1","e","5">>, <<"-","1",".","5">>,
     <<"a",":","/","/","b">>, <<BS,"n",DQ>>}
PrimValues ==
    {Null, Bool(TRUE), Bool(FALSE), Num(0, 0), Num(12, 0), Num(-5, 0), Num(15, -1),
     Num(1, 21), Num(-1, -7)}
      \cup {Str(s) : s \in SeqsUpTo(PrimAlphabet, MaxStrLen) \cup PrimWords}

\* What SpecTable decodes: a table at the root, under the key k or under the
\* root-array marker; a header line, then at most MaxLines further lines
Indented(n, line) == Spaces(n) \o line
HeaderLines ==
    {<<"|",SP,"a",SP,"|",SP,"b",SP,"|">>, <<"|",SP,"a",SP,"|",SP,"a",SP,"|">>,
     <<"|",SP,"2",SP,"|",SP,"1",SP,"|">>,
     <<"|",SP>> \o ProtoKey \o <<SP,"|",SP,"b",SP,"|">>}
DataLines ==
    {<<"|",SP,"1",SP,"|",SP,"2",SP,"|">>, <<"|",SP,"-",SP,"|",SP,"x",SP,"|">>,
     <<"|",SP,"1",SP,"|">>}
\* a sibling key, and a row that is not indented
OtherLines == {<<"b",":",SP,"2">>, <<"|",SP,"7",SP,"|",SP,"8",SP,"|">>}
TableDocs ==
    LET body(n) ==
          {<<Indented(n, h)>> \o ls :
              <<h, ls>> \in HeaderLines \X
                 SeqsUpTo({Indented(n, d) : d \in DataLines} \cup OtherLines, MaxLines)}
    IN  {Join(ls, <<NL>>) : ls \in body(0)}
          \cup {Join(<<<<"k", ":">>>> \o ls, <<NL>>) : ls \in body(2)}
          \cup {Join(<<<<"_", ":">>>> \o ls, <<NL>>) : ls \in body(2)}

\* What SpecDoc decodes: at most MaxLines lines of keys, nested keys and
\* table lines; and the comment and blank lines it inserts
DocLines ==
    {<<"k",":">>, <<SP,SP,"a",":",SP,"1">>, <<SP,SP,"b",":">>,
     <<SP,SP,SP,SP,"c",":",SP,"1">>, <<"b",":",SP,"2">>,
     <<SP,SP,"|",SP,"a",SP,"|">>, <<SP,SP,"|",SP,"1",SP,"|">>, <<"_",":">>}
Docs == {Join(ls, <<NL>>) : ls \in NonEmptySeqsUpTo(DocLines, MaxLines)}
CommentLines == {<<"#",SP,"c">>, <<SP,SP,"#",SP,"c">>, <<SP,SP,SP,SP,"#">>}
BlankLines == {<<>>, <<SP,SP>>}

\* What SpecLenient decodes: at most MaxLines lines, some of them
\* malformed (no colon, a table line without its last pipe, a stray
\* indented line), under every choice of the decode options
LenientLines ==
    {<<"k",":">>, <<SP,SP,"a",":",SP,"1">>, <<"b",":",SP,"2">>, <<"o","o","p","s">>,
     <<SP,SP,"|",SP,"a">>, <<"_",":">>, <<>>}
LenientDocs == {Join(ls, <<NL>>) : ls \in NonEmptySeqsUpTo(LenientLines, MaxLines)}
DecodeOptionSets == {[strict |-> st, indent |-> n] : st \in BOOLEAN, n \in {2, 4}}

\* What SpecValid validates: at most MaxLines lines among a key line, table
\* lines of three and two pipes, one without its last pipe, one at the
\* root, a comment, a blank line, a key line indented by three spaces, a
\* table line indented by three spaces without its last pipe and a table
\* line of one quoted cell with a pipe in it
ValidatorLines ==
    {<<"k",":">>, <<SP,SP,"|",SP,"a",SP,"|",SP,"b",SP,"|">>, <<SP,SP,"|",SP,"1",SP,"|">>,
     <<SP,SP,"|",SP,"1",SP,"|",SP,"2">>, <<"|",SP,"1",SP,"|",SP,"2",SP,"|">>,
     <<"#",SP,"c">>, <<>>, <<SP,SP,SP,"a",":",SP,"1">>, <<SP,SP,SP,"|",SP,"1">>,
     <<SP,SP,"|",SP,DQ,"a","|","b",DQ,SP,"|">>}
ValidatorDocs == {Join(ls, <<NL>>) : ls \in NonEmptySeqsUpTo(ValidatorLines, MaxLines)}

\* What SpecEncValid encodes: nested objects and arrays under a key, with
\* an indent of two, three or four spaces
IndentedValues == NestedObjects \cup KeyedArrays
IndentOptions == {[indent |-> n, compact |-> FALSE, sortKeys |-> FALSE] : n \in {2, 3, 4}}

\* What SpecKeys encodes: objects built by inserting at most MaxKeys keys,
\* two words and two array indices, in any order, each with the value 1, an
\* inner object or an array that holds an inner object; with and without
\* sortKeys
OrderKeys == {<<"b">>, <<"a">>, <<"1", "0">>, <<"9">>}
OrderKeySeqs ==
    {ks \in SeqsUpTo(OrderKeys, MaxKeys) : \A i, j \in 1..Len(ks) : i # j => ks[i] # ks[j]}
InnerEntries ==
    {ObjOf(<<<<"b">>, <<"a">>>>, <<Num(1, 0), Num(1, 0)>>),
     ObjOf(<<<<"1", "0">>, <<"9">>>>, <<Num(1, 0), Num(1, 0)>>),
     Arr(<<ObjOf(<<<<"b">>, <<"a">>>>, <<Num(1, 0), Num(1, 0)>>), Num(1, 0)>>)}
OrderedDocs ==
    UNION {{ObjOf(ks, vs) : vs \in [1..Len(ks) -> {Num(1, 0)} \cup InnerEntries]} :
              ks \in OrderKeySeqs}
SortOptions == [indent |-> 2, compact |-> FALSE, sortKeys |-> TRUE]

\* What SpecBlank decodes: at most MaxLines lines among an empty line, a
\* line of spaces, two comments and a key line, ended by \n, \r\n or \r
BlankOrKeyLines ==
    {<<>>, <<SP,SP>>, <<SP,SP,"#",SP,"c">>, <<"#",SP,"a",":",SP,"1">>, <<"a",":",SP,"1">>}
LineEnds == {<<NL>>, <<CR, NL>>, <<CR>>}
BlankDocs ==
    {Join(ls, end) : ls \in SeqsUpTo(BlankOrKeyLines, MaxLines), end \in LineEnds}

\* What SpecRoot encodes: objects of at most MaxKeys keys among _ and a,
\* in either order, and arrays of at most MaxArr elements
RootKeySeqs ==
    {ks \in SeqsUpTo({<<"_">>, <<"a">>}, MaxKeys) : \A i, j \in 1..Len(ks) : i # j => ks[i] # ks[j]}
RootLeaves ==
    {Num(1, 0), Null, Arr(<<Num(1, 0)>>), ObjOf(<<<<"a">>>>, <<Num(1, 0)>>)}
RootValues ==
    UNION {{ObjOf(ks, vs) : vs \in [1..Len(ks) -> RootLeaves]} : ks \in RootKeySeqs}
      \cup ArraysOver(RootLeaves)

\* What SpecElig encodes: under the key k, an array of at most MaxArr
\* elements among objects with the keys a and b in both orders, with the
\* one key a, with the one key `a,b`, with an array as a value and with no
\* key, a number and an array
EligElements ==
    {ObjOf(<<<<"a">>, <<"b">>>>, <<Num(1, 0), Num(1, 0)>>),
     ObjOf(<<<<"b">>, <<"a">>>>, <<Num(1, 0), Num(1, 0)>>),
     ObjOf(<<<<"a">>>>, <<Num(1, 0)>>),
     ObjOf(<<<<"a", ",", "b">>>>, <<Num(1, 0)>>),
     ObjOf(<<<<"a">>>>, <<Arr(<<Num(1, 0)>>)>>),
     Obj(<<>>), Num(1, 0), Arr(<<Num(1, 0)>>)}
EligValues == {Obj(<<[k |-> <<"k">>, v |-> arr]>>) : arr \in ArraysOver(EligElements)}

\* What SpecEscape escapes: the strings of at most MaxStrLen characters
\* among the five that escapeString replaces and the letters n, r, t
EscapeAlphabet == {BS, DQ, NL, CR, TAB, "n", "r", "t"}
EscapeStrings == {Str(s) : s \in SeqsUpTo(EscapeAlphabet, MaxStrLen)}

\* What SpecParse parses: every text of at most MaxStrLen characters of
\* ParseAlphabet, and some longer texts
ParseAlphabet == {"x", "1", "-", "+", ".", "e", "?", SP, DQ, CHECK}
ParseWords ==
    {<<"n","u","l","l">>, <<"t","r","u","e">>, <<"f","a","l","s","e">>, <<"N","u","l","l">>, <<"T","R","U","E">>,
     <<"-","1",".","5">>, <<"1","e","5">>, <<"1","E","-","2">>, <<"1","e","9","9","9">>, <<"+","1",".","5">>, <<"1",".">>, <<"0","x","1">>,
     <<DQ,"x",SP,"y",DQ>>, <<SP,"x",SP>>, <<"a",SP,"b">>, <<DQ,"a">>,
     <<"c","o","n","s","t","r","u","c","t","o","r">>, <<"t","o","S","t","r","i","n","g">>, <<"_","_","p","r","o","t","o","_","_">>}
ParseTexts == SeqsUpTo(ParseAlphabet, MaxStrLen) \cup ParseWords

\* What SpecSteps decodes: the key k with nothing after it, and then at
\* most MaxLines lines among a nested key with nothing after it, a nested
\* key with a value, a key nested twice, a table header and row, a key at
\* the root and a blank line
StepLines ==
    {<<SP,SP,"b",":">>, <<SP,SP,"a",":",SP,"1">>, <<SP,SP,SP,SP,"c",":",SP,"1">>,
     <<SP,SP,"|",SP,"a",SP,"|">>, <<SP,SP,"|",SP,"1",SP,"|">>, <<"b",":",SP,"2">>, <<>>}
StepDocs == {Join(<<<<"k",":">>>> \o ls, <<NL>>) : ls \in SeqsUpTo(StepLines, MaxLines)}

\* What SpecSiblings decodes: the texts of SpecSteps with, among their
\* lines, the key __proto__ at the root
SiblingDocs ==
    {Join(<<<<"k",":">>>> \o ls, <<NL>>) :
        ls \in SeqsUpTo(StepLines \cup {ProtoKey \o <<":",SP,"1">>}, MaxLines)}

\* What SpecWidth encodes, and the indent widths it encodes with
WidthValues == RootArrays \cup NestedObjects
WidthOptions == {[indent |-> n, compact |-> FALSE, sortKeys |-> FALSE] : n \in {1, 2, 3}}

\* What SpecStray decodes: a key at the root, with a value or without,
\* and then at most MaxLines lines among these two, a nested key, a table
\* header and row, a key nested twice and a blank line
StrayLines ==
    {<<"k",":">>, <<"b",":",SP,"2">>, <<SP,SP,"a",":",SP,"1">>,
     <<SP,SP,"|",SP,"a",SP,"|">>, <<SP,SP,"|",SP,"1",SP,"|">>,
     <<SP,SP,SP,SP,"c",":",SP,"1">>, <<>>}
StrayDocs ==
    {Join(<<first>> \o ls, <<NL>>) :
        first \in {<<"k",":">>, <<"b",":",SP,"2">>},
        ls \in NonEmptySeqsUpTo(StrayLines, MaxLines)}

-----------------------------------------------------------------------------
(* The callers.  Every specification is a caller of the library's          *)
(* functions: it holds an argument and applies the function in one step.   *)

NoValue == [t |-> "none"]
NoTable == [start |-> 0, indent |-> 0, value |-> NoValue, endIndex |-> 0]
NoLine == [pos |-> 0, line |-> <<>>]
NoResult == [valid |-> FALSE, errors |-> <<>>]

\* What every caller starts with, but for pc and its argument
Fresh ==
    /\ doc = NoValue
    /\ out = NoValue
    /\ text2 = <<>>
    /\ ins = NoLine
    /\ out2 = NoValue
    /\ tbl = NoTable
    /\ res = NoResult
    /\ stack = <<>>
    /\ inputLines = <<>>

\* SpecRT: encode a value with the default options, decode the text
InitRT ==
    /\ pc = "value"
    /\ x \in Values
    /\ opts = DefaultOptions
    /\ inTable = FALSE
    /\ text = <<>>
    /\ Fresh

\* SpecCells: encode a table, a scalar or an inline list, decode the text
InitCells ==
    /\ pc = "value"
    /\ x \in CellValues
    /\ opts \in {DefaultOptions, CompactOptions}
    /\ inTable = FALSE
    /\ text = <<>>
    /\ Fresh

\* SpecPrim: format a scalar, parse the text
InitPrim ==
    /\ pc = "scalar"
    /\ x \in PrimValues
    /\ opts \in {DefaultOptions, CompactOptions}
    /\ inTable \in BOOLEAN
    /\ text = <<>>
    /\ Fresh

\* SpecTable: decode a text that holds a table; call parseTable on it
InitTable ==
    /\ pc = "encoded"
    /\ x = NoValue
    /\ opts = DefaultOptions
    /\ inTable = FALSE
    /\ text \in TableDocs
    /\ Fresh

\* SpecDoc: decode a text, insert a line, decode again
InitDoc ==
    /\ pc = "encoded"
    /\ x = NoValue
    /\ opts = DefaultOptions
    /\ inTable = FALSE
    /\ text \in Docs
    /\ Fresh

\* SpecLenient: decode a text with the default options and with others
InitLenient ==
    /\ pc = "encoded"
    /\ x = NoValue
    /\ opts \in DecodeOptionSets
    /\ inTable = FALSE
    /\ text \in LenientDocs
    /\ Fresh

\* SpecValid: validate a text
InitValid ==
    /\ pc = "encoded"
    /\ x = NoValue
    /\ opts = DefaultOptions
    /\ inTable = FALSE
    /\ text \in ValidatorDocs
    /\ Fresh

\* SpecEncValid: encode a value with some indent, validate the text
InitEncValid ==
    /\ pc = "value"
    /\ x \in IndentedValues
    /\ opts \in IndentOptions
    /\ inTable = FALSE
    /\ text = <<>>
    /\ Fresh

\* The object whose properties are set in the order of the entries
RECURSIVE FromEntries(_)
RECURSIVE SetEntries(_, _)
SetEntries(entries, n) ==
    IF n = 0 THEN Obj(<<>>)
    ELSE ObjSet(SetEntries(entries, n - 1), entries[n].k, FromEntries(entries[n].v))
FromEntries(v) ==
    IF IsObj(v) THEN SetEntries(v.v, Len(v.v))
    ELSE IF IsArr(v) THEN Arr([i \in 1..Len(v.v) |-> FromEntries(v.v[i])])
    ELSE v

\* SpecKeys: build an object entry by entry, encode it
InitKeys ==
    /\ pc = "value"
    /\ doc \in OrderedDocs
    /\ x = FromEntries(doc)
    /\ opts \in {DefaultOptions, SortOptions}
    /\ inTable = FALSE
    /\ text = <<>>
    /\ out = NoValue
    /\ text2 = <<>>
    /\ ins = NoLine
    /\ out2 = NoValue
    /\ tbl = NoTable
    /\ res = NoResult
    /\ stack = <<>>
    /\ inputLines = <<>>

\* SpecBlank: decode a text of blank lines, comments and key lines
InitBlank ==
    /\ pc = "encoded"
    /\ x = NoValue
    /\ opts = DefaultOptions
    /\ inTable = FALSE
    /\ text \in BlankDocs
    /\ Fresh

\* SpecRoot: encode an object or an array, decode the text
InitRoot ==
    /\ pc = "value"
    /\ x \in RootValues
    /\ opts = DefaultOptions
    /\ inTable = FALSE
    /\ text = <<>>
    /\ Fresh

\* SpecElig: encode an array under a key, decode the text
InitElig ==
    /\ pc = "value"
    /\ x \in EligValues
    /\ opts = DefaultOptions
    /\ inTable = FALSE
    /\ text = <<>>
    /\ Fresh

\* SpecEscape: escape a string, unescape the text
InitEscape ==
    /\ pc = "string"
    /\ x \in EscapeStrings
    /\ opts = DefaultOptions
    /\ inTable = FALSE
    /\ text = <<>>
    /\ Fresh

\* text = escapeString(x)
Escape ==
    /\ pc = "string"
    /\ text' = escapeString(x.v)
    /\ pc' = "escaped"
    /\ UNCHANGED <<x, doc, opts, inTable, out, text2, ins, out2, tbl, res, stack, inputLines>>

\* out = unescapeString(text)
Unescape ==
    /\ pc = "escaped"
    /\ out' = Str(unescapeString(text))
    /\ pc' = "unescaped"
    /\ UNCHANGED <<x, doc, opts, inTable, text, text2, ins, out2, tbl, res, stack, inputLines>>

\* SpecParse: parse a text as a scalar
InitParse ==
    /\ pc = "formatted"
    /\ x = NoValue
    /\ opts = DefaultOptions
    /\ inTable = FALSE
    /\ text \in ParseTexts
    /\ Fresh

\* SpecSteps: decode a text one pass of parseDocument's loop at a time,
\* from where decode has split its input into lines, index.ts 598-599
InitSteps ==
    /\ pc = "split"
    /\ x = NoValue
    /\ opts = DefaultOptions
    /\ inTable = FALSE
    /\ text \in StepDocs
    /\ inputLines = Scan(SplitLines(text))
    /\ doc = NoValue
    /\ out = NoValue
    /\ text2 = <<>>
    /\ ins = NoLine
    /\ out2 = NoValue
    /\ tbl = NoTable
    /\ res = NoResult
    /\ stack = <<>>

\* SpecSiblings: as SpecSteps, for the texts of SiblingDocs
InitSiblings ==
    /\ pc = "split"
    /\ x = NoValue
    /\ opts = DefaultOptions
    /\ inTable = FALSE
    /\ text \in SiblingDocs
    /\ inputLines = Scan(SplitLines(text))
    /\ doc = NoValue
    /\ out = NoValue
    /\ text2 = <<>>
    /\ ins = NoLine
    /\ out2 = NoValue
    /\ tbl = NoTable
    /\ res = NoResult
    /\ stack = <<>>

\* SpecWidth: encode with an indent width, then decode
InitWidth ==
    /\ pc = "value"
    /\ x \in WidthValues
    /\ opts \in WidthOptions
    /\ inTable = FALSE
    /\ text = <<>>
    /\ Fresh

\* SpecStray: decode a text, take an indented line out, decode again
InitStray ==
    /\ pc = "encoded"
    /\ x = NoValue
    /\ opts = DefaultOptions
    /\ inTable = FALSE
    /\ text \in StrayDocs
    /\ Fresh

\* text = encode(x, opts)
Encode ==
    /\ pc = "value"
    /\ text' = encode(x, opts)
    /\ pc' = "encoded"
    /\ UNCHANGED <<x, doc, opts, inTable, out, text2, ins, out2, tbl, res, stack, inputLines>>

\* out = decode(text)
Decode ==
    /\ pc = "encoded"
    /\ out' = decode(text, DecodeOptions)
    /\ pc' = "decoded"
    /\ UNCHANGED <<x, doc, opts, inTable, text, text2, ins, out2, tbl, res, stack, inputLines>>

\* text = formatPrimitive(x, opts, inTable)
Format ==
    /\ pc = "scalar"
    /\ text' = formatPrimitive(x, opts, inTable)
    /\ pc' = "formatted"
    /\ UNCHANGED <<x, doc, opts, inTable, out, text2, ins, out2, tbl, res, stack, inputLines>>

\* out = parsePrimitive(text)
Parse ==
    /\ pc = "formatted"
    /\ out' = parsePrimitive(text)
    /\ pc' = "parsed"
    /\ UNCHANGED <<x, doc, opts, inTable, text, text2, ins, out2, tbl, res, stack, inputLines>>

\* tbl = parseTable(lines, start, indent) for a line that starts a table,
\* with an indent the decoder passes: 0 (a table at the root), 2 (under the
\* root-array marker) or the header's own (under a key)
ParseTable ==
    /\ pc \in {"decoded", "validated"}
    /\ \E start \in 1..Len(SplitLines(text)) :
          LET lines == SplitLines(text)
          IN  /\ StartsWith(Trim(lines[start]), <<"|">>)
              /\ start > 1 => ~StartsWith(Trim(lines[start - 1]), <<"|">>)
              /\ \E indent \in {0, 2, LeadingWS(lines[start])} :
                    LET r == parseTable(lines, start, indent)
                    IN  tbl' = [start |-> start, indent |-> indent,
                                value |-> r.value, endIndex |-> r.endIndex]
    /\ pc' = "tabled"
    /\ UNCHANGED <<x, doc, opts, inTable, text, out, text2, ins, out2, res, stack, inputLines>>

\* text2 = text with the line ln put in before line pos + 1
InsertLine ==
    /\ pc = "decoded"
    /\ \E pos \in 0..Len(SplitLines(text)), ln \in CommentLines \cup BlankLines :
          LET lines == SplitLines(text)
          IN  /\ text2' = Join(SubSeq(lines, 1, pos) \o <<ln>> \o
                               SubSeq(lines, pos + 1, Len(lines)), <<NL>>)
              /\ ins' = [pos |-> pos, line |-> ln]
    /\ pc' = "inserted"
    /\ UNCHANGED <<x, doc, opts, inTable, text, out, out2, tbl, res, stack, inputLines>>

\* decode up to its call of parseDocument, index.ts 601-639: a text that
\* is for another parser, or for none, is decoded at once
StartDecode ==
    /\ pc = "split"
    /\ IF \E l \in 1..Len(inputLines) :
              ~inputLines[l].empty /\ ~inputLines[l].comment /\ ~inputLines[l].pipe
                 /\ ~inputLines[l].marker
                 /\ \A g \in 1..(l - 1) : inputLines[g].empty \/ inputLines[g].comment
       THEN /\ stack' = <<Frame(0, Min({l \in 1..Len(inputLines) :
                                           ~inputLines[l].empty /\ ~inputLines[l].comment}))>>
            /\ pc' = "parsing"
            /\ out' = out
       ELSE /\ stack' = <<>>
            /\ pc' = "decoded"
            /\ out' = decode(text, DecodeOptions)
    /\ UNCHANGED <<x, doc, opts, inTable, text, text2, ins, out2, tbl, res, inputLines>>

\* One pass of the loop of the innermost call, a table read with it
Step ==
    /\ pc = "parsing"
    /\ ~BlockEnds(inputLines, stack[Len(stack)])
    /\ ~(~IsSkipped(inputLines, stack[Len(stack)])
           /\ FindsNested(inputLines, stack[Len(stack)]))
    /\ stack' = [stack EXCEPT ![Len(stack)] = AfterLine(inputLines, stack[Len(stack)])]
    /\ UNCHANGED <<pc, x, doc, opts, inTable, text, out, text2, ins, out2, tbl, res,
                   inputLines>>

\* parseDocument(lines, nextIdx, nextIndent, options), index.ts 541
Call ==
    /\ pc = "parsing"
    /\ ~BlockEnds(inputLines, stack[Len(stack)])
    /\ ~IsSkipped(inputLines, stack[Len(stack)])
    /\ FindsNested(inputLines, stack[Len(stack)])
    /\ stack' = Append([stack EXCEPT ![Len(stack)].key = inputLines[stack[Len(stack)].i].key],
                       Frame(inputLines[NextIdx(inputLines, stack[Len(stack)])].indent,
                             NextIdx(inputLines, stack[Len(stack)])))
    /\ UNCHANGED <<pc, x, doc, opts, inTable, text, out, text2, ins, out2, tbl, res,
                   inputLines>>

\* return { value: result, endIndex: i }, index.ts 568, to the call that
\* made this one, or to decode
Return ==
    /\ pc = "parsing"
    /\ BlockEnds(inputLines, stack[Len(stack)])
    /\ IF Len(stack) = 1
       THEN /\ out' = stack[1].result
            /\ pc' = "decoded"
            /\ stack' = <<>>
       ELSE /\ stack' = [SubSeq(stack, 1, Len(stack) - 1) EXCEPT
                            ![Len(stack) - 1] =
                                Returned(stack[Len(stack) - 1], stack[Len(stack)])]
            /\ UNCHANGED <<pc, out>>
    /\ UNCHANGED <<x, doc, opts, inTable, text, text2, ins, out2, tbl, res, inputLines>>

\* text2 = text without its line pos, a line that is indented and not blank
RemoveLine ==
    /\ pc = "decoded"
    /\ \E pos \in 1..Len(SplitLines(text)) :
          /\ Len(SplitLines(text)) > 1
          /\ Trim(SplitLines(text)[pos]) # <<>>
          /\ LeadingWS(SplitLines(text)[pos]) > 0
          /\ text2' = Join(SubSeq(SplitLines(text), 1, pos - 1)
                             \o SubSeq(SplitLines(text), pos + 1, Len(SplitLines(text))),
                           <<NL>>)
          /\ ins' = [pos |-> pos, line |-> SplitLines(text)[pos]]
    /\ pc' = "inserted"
    /\ UNCHANGED <<x, doc, opts, inTable, text, out, out2, tbl, res, stack, inputLines>>

\* out2 = decode(text2)
DecodeInserted ==
    /\ pc = "inserted"
    /\ out2' = decode(text2, DecodeOptions)
    /\ pc' = "decoded2"
    /\ UNCHANGED <<x, doc, opts, inTable, text, out, text2, ins, tbl, res, stack, inputLines>>

\* out2 = decode(text, opts)
DecodeWithOptions ==
    /\ pc = "decoded"
    /\ out2' = decode(text, opts)
    /\ pc' = "decoded2"
    /\ UNCHANGED <<x, doc, opts, inTable, text, out, text2, ins, tbl, res, stack, inputLines>>

\* res = validate(text)
Validate ==
    /\ pc = "encoded"
    /\ res' = validate(text)
    /\ pc' = "validated"
    /\ UNCHANGED <<x, doc, opts, inTable, text, out, text2, ins, out2, tbl, stack, inputLines>>

NextRT == Encode \/ Decode
NextPrim == Format \/ Parse
NextTable == Decode \/ ParseTable
NextDoc == Decode \/ InsertLine \/ DecodeInserted
NextLenient == Decode \/ DecodeWithOptions
NextValid == Validate
NextStray == Decode \/ RemoveLine \/ DecodeInserted
NextAgree == Validate \/ ParseTable
NextSteps == StartDecode \/ Step \/ Call \/ Return
NextParse == Parse
NextEscape == Escape \/ Unescape
NextBlank == Decode
NextKeys == Encode
NextEncValid == Encode \/ Validate

SpecRT == InitRT /\ [][NextRT]_vars
SpecCells == InitCells /\ [][NextRT]_vars
SpecPrim == InitPrim /\ [][NextPrim]_vars
SpecTable == InitTable /\ [][NextTable]_vars
SpecDoc == InitDoc /\ [][NextDoc]_vars
SpecLenient == InitLenient /\ [][NextLenient]_vars
SpecValid == InitValid /\ [][NextValid]_vars
SpecStray == InitStray /\ [][NextStray]_vars
SpecWidth == InitWidth /\ [][NextRT]_vars
\* encode with the default options and validate the text
SpecRTValid == InitRT /\ [][NextEncValid]_vars
SpecSiblings == InitSiblings /\ [][NextSteps]_vars
\* validate a text, then read a table of it
SpecAgree == InitValid /\ [][NextAgree]_vars
\* decode runs on: what is enabled is taken
SpecSteps == InitSteps /\ [][NextSteps]_vars /\ WF_vars(NextSteps)
SpecParse == InitParse /\ [][NextParse]_vars
SpecEscape == InitEscape /\ [][NextEscape]_vars
SpecElig == InitElig /\ [][NextRT]_vars
SpecRoot == InitRoot /\ [][NextRT]_vars
SpecBlank == InitBlank /\ [][NextBlank]_vars
SpecKeys == InitKeys /\ [][NextKeys]_vars
SpecEncValid == InitEncValid /\ [][NextEncValid]_vars

-----------------------------------------------------------------------------
(* The claims *)

Letters == {LowerCase[i] : i \in 1..Len(LowerCase)} \cup {UpperCase[i] : i \in 1..Len(UpperCase)}

\* A word of letters that formatPrimitive writes as it is
IsPlainWord(s) ==
    /\ Len(s) > 0
    /\ \A i \in 1..Len(s) : s[i] \in Letters
    /\ ~needsQuoting(s)

\* null, a boolean, a number or a plain word
IsPlainScalar(v) == v.t \in {"null", "bool", "num"} \/ (IsStr(v) /\ IsPlainWord(v.v))

\* An object whose values are null, booleans, numbers or strings
IsScalarObject(v) == IsObj(v) /\ \A i \in 1..Len(v.v) : isPrimitive(v.v[i].v)

\* {k: arr} for a non-empty array arr of objects with the same keys and
\* only primitive values
IsKeyedTable(v) ==
    /\ IsObj(v) /\ Len(v.v) = 1 /\ IsArr(v.v[1].v)
    /\ isTableArray(v.v[1].v.v)

\* An object whose values are plain scalars or non-empty objects of the
\* same kind
RECURSIVE IsPlainTree(_)
IsPlainTree(v) ==
    /\ IsObj(v)
    /\ \A i \in 1..Len(v.v) :
          /\ IsPlainWord(v.v[i].k)
          /\ \/ IsPlainScalar(v.v[i].v)
             \/ IsObj(v.v[i].v) /\ Len(v.v[i].v.v) > 0 /\ IsPlainTree(v.v[i].v)

\* {k: arr} for a non-empty array arr of numbers, booleans and plain words
IsKeyedPlainArray(v) ==
    /\ IsObj(v) /\ Len(v.v) = 1 /\ IsArr(v.v[1].v)
    /\ Len(v.v[1].v.v) > 0
    /\ \A i \in 1..Len(v.v[1].v.v) :
          LET e == v.v[1].v.v[i]
          IN  e.t \in {"num", "bool"} \/ (IsStr(e) /\ IsPlainWord(e.v))

\* C1: decode(encode(x)) with the default options equals x, for every
\* object or array x
C1_LosslessRoundTrip == pc = "decoded" => JsonEq(out, x)

\* C2: decode(encode(x)) equals x for every object x whose values are
\* null, booleans, numbers or strings of any content
C2_ScalarObjectRoundTrip == pc = "decoded" /\ IsScalarObject(x) => JsonEq(out, x)

\* C3: decode(encode({k: arr})) equals {k: arr} for every non-empty array
\* arr of objects with the same keys and only primitive values, the empty
\* string included: the same rows in the same order
C3_TableRoundTrip ==
    pc = "decoded" /\ IsKeyedTable(x) =>
        /\ IsObj(out) /\ Len(out.v) = 1 /\ IsArr(out.v[1].v)
        /\ Len(out.v[1].v.v) = Len(x.v[1].v.v)
        /\ JsonEq(out, x)

\* A word compact mode writes as a symbol; true, false, null in any case;
\* the shape of a number
IsCompactKeyword(s) == HasStatusSymbol(ToLowerCase(s))
IsLiteralWord(s) ==
    ToLowerCase(s) \in {<<"t","r","u","e">>, <<"f","a","l","s","e">>, <<"n","u","l","l">>}
IsNumericShape(s) == MatchesNumber(s) \/ MatchesPlainDecimal(s)

\* C4: outside a table, parsePrimitive(formatPrimitive(s, options)) is the
\* string s, for every string s that is no compact-mode keyword, none of
\* true, false, null, and not of numeric shape
C4_QuotingIdempotence ==
    pc = "parsed" /\ IsStr(x) /\ ~inTable
       /\ ~IsCompactKeyword(x.v) /\ ~IsLiteralWord(x.v) /\ ~IsNumericShape(x.v)
    => out = x

\* The rows of the table under the only key of v, and the names of its
\* columns
RowsOf(v) == v.v[1].v.v
ColumnsOf(v) == ObjectKeys(RowsOf(v)[1])

\* The cells of a table line of the text
CellTexts(line) == SplitCells(Trim(line))

\* What follows `k: ` on a one-line document, and its parts at `, `
ValueText(t) == SubSeq(t, 4, Len(t))
ListParts(t) == Split(ValueText(t), <<",", SP>>)
IsQuotedText(s) == StartsWith(s, <<DQ>>) /\ EndsWith(s, <<DQ>>)

\* In the table encoded for v, every cell that is null or the empty string
\* reads `-`: row r of the table is line r + 2 of the text
NullCellsAreDashes(v, lines) ==
    \A r \in 1..Len(RowsOf(v)) : \A c \in 1..Len(ColumnsOf(v)) :
        ObjGet(RowsOf(v)[r], ColumnsOf(v)[c]) \in {Null, Str(<<>>)}
            => CellTexts(lines[r + 2])[c] = <<"-">>

\* In the value decoded from a table under a key, every cell that reads `-`
\* is null
DashCellsAreNull(lines, rows) ==
    /\ IsArr(rows) /\ Len(rows.v) = Len(lines) - 2
    /\ \A r \in 1..(Len(lines) - 2) : \A c \in 1..Len(CellTexts(lines[2])) :
          CellTexts(lines[r + 2])[c] = <<"-">>
              => ObjGet(rows.v[r], CellTexts(lines[2])[c]) = Null

\* In the value decoded from `k: v` or `k: v1, v2, ...`, v not in quotes,
\* every part that reads `-` is null
DashPartsAreNull(parts, value) ==
    IF Len(parts) = 1 THEN parts[1] = <<"-">> => value = Null
    ELSE /\ IsArr(value) /\ Len(value.v) = Len(parts)
         /\ \A i \in 1..Len(parts) : parts[i] = <<"-">> => value.v[i] = Null

IsTableLine(line, indent) == StartsWith(Trim(line), <<"|">>) /\ LeadingWS(line) >= indent

\* The last line of the run of table lines after the header at `start`
RunEnd(lines, start, indent) ==
    CHOOSE e \in start..Len(lines) :
        /\ \A j \in (start + 1)..e : IsTableLine(lines[j], indent)
        /\ e = Len(lines) \/ ~IsTableLine(lines[e + 1], indent)

\* The lines of start+1..e with as many cells as the header, in order
MatchingLines(lines, start, e, headers) ==
    LET HasHeaderCount(j) == Len(CellTexts(lines[j])) = Len(headers)
    IN  SelectSeq([j \in 1..(e - start) |-> start + j], HasHeaderCount)

\* The first column with the name `name`
FirstColumn(headers, name) == Min({c \in 1..Len(headers) : headers[c] = name})

\* Array-index names come first, in ascending order; the other names follow
\* in the order of their first columns
KeyBefore(headers, a, b) ==
    IF IsArrayIndex(a) THEN IsArrayIndex(b) => IndexValue(a) < IndexValue(b)
    ELSE ~IsArrayIndex(b) /\ FirstColumn(headers, a) < FirstColumn(headers, b)

\* The row has one entry per distinct header name other than __proto__,
\* holding the parsed cell of the last column of that name
RowAgrees(row, headers, cells) ==
    /\ IsObj(row)
    /\ {row.v[i].k : i \in 1..Len(row.v)} = {headers[c] : c \in 1..Len(headers)} \ {ProtoKey}
    /\ Len(row.v) = Cardinality({headers[c] : c \in 1..Len(headers)} \ {ProtoKey})
    /\ \A c \in 1..Len(headers) :
          headers[c] # ProtoKey /\ (\A d \in (c + 1)..Len(headers) : headers[d] # headers[c])
              => ObjGet(row, headers[c]) = parsePrimitive(cells[c])
    /\ \A i, j \in 1..Len(row.v) : i < j => KeyBefore(headers, row.v[i].k, row.v[j].k)

\* The table has a row for each line of the run that has as many cells as
\* the header, in order, whatever lines lie between them
RowsAreMatchingLines(lines, rows, matching) ==
    /\ IsArr(rows)
    /\ Len(rows.v) = Len(matching)

EveryRowAgrees(lines, rows, headers, matching) ==
    \A n \in 1..Len(matching) : RowAgrees(rows.v[n], headers, CellTexts(lines[matching[n]]))

C7_NestedObjectRoundTrip == pc = "decoded" /\ IsPlainTree(x) => JsonEq(out, x)

\* C8: decode(encode({k: arr})) equals {k: arr} for every non-empty array
\* arr of numbers, booleans and plain words, of one element or more
C8_InlineArrayRoundTrip ==
    pc = "decoded" /\ IsKeyedPlainArray(x) =>
        /\ IsObj(out) /\ Len(out.v) = 1 /\ IsArr(out.v[1].v)
        /\ out = x

\* C9: a comment line put in anywhere leaves the value decode returns as
\* it was
C9_CommentsIgnored ==
    pc = "decoded2" /\ StartsWith(Trim(ins.line), <<"#">>) => JsonEq(out2, out)

\* C10: a blank line put in anywhere leaves the value decode returns as it
\* was
C10_BlankLinesIgnored ==
    pc = "decoded2" /\ Trim(ins.line) = <<>> => JsonEq(out2, out)

\* The cells of a table line as SPEC.md 6.5 reads them: the text between
\* two `|` that stand outside double quotes, trimmed; within quotes a
\* backslash takes the next character with it
RECURSIVE QuotedCellsFrom(_, _, _, _, _)
QuotedCellsFrom(s, i, quoted, cell, cells) ==
    IF i > Len(s) THEN Append(cells, cell)
    ELSE IF quoted /\ s[i] = BS /\ i < Len(s)
        THEN QuotedCellsFrom(s, i + 2, quoted, cell \o <<s[i], s[i + 1]>>, cells)
    ELSE IF s[i] = DQ
        THEN QuotedCellsFrom(s, i + 1, ~quoted, Append(cell, s[i]), cells)
    ELSE IF s[i] = "|" /\ ~quoted
        THEN QuotedCellsFrom(s, i + 1, quoted, <<>>, Append(cells, cell))
    ELSE QuotedCellsFrom(s, i + 1, quoted, Append(cell, s[i]), cells)

QuotedCells(line) ==
    [c \in 1..(Len(QuotedCellsFrom(Trim(line), 1, FALSE, <<>>, <<>>)) - 2) |->
        Trim(QuotedCellsFrom(Trim(line), 1, FALSE, <<>>, <<>>)[c + 1])]

\* A cell in double quotes with a `|` between them
IsQuotedPipeCell(cell) == Len(cell) >= 2 /\ IsQuotedText(cell) /\ Includes(Slice1(cell), <<"|">>)

\* The row read from the line, cell by cell, holds under the c-th header
\* the text between the quotes of every quoted cell with a pipe
QuotedCellsKept(headers, cells, row) ==
    /\ IsObj(row)
    /\ \A c \in 1..Len(cells) :
          IsQuotedPipeCell(cells[c]) /\ c <= Len(headers)
              => ObjGet(row, headers[c]) = Str(unescapeString(Slice1(cells[c])))

\* C11: a data row of a table with a double-quoted cell that has a `|`
\* inside the quotes is kept, and the cell's value is the text between the
\* quotes: in the text encode wrote for {a: rows}, line r + 2 is row r
C11_QuotedCellsKept ==
    pc = "decoded" /\ IsKeyedTable(x) =>
        \A r \in 1..Len(RowsOf(x)) :
            (\E c \in 1..Len(QuotedCells(SplitLines(text)[r + 2])) :
                 IsQuotedPipeCell(QuotedCells(SplitLines(text)[r + 2])[c]))
            => /\ IsArr(ObjGet(out, x.v[1].k))
               /\ Len(ObjGet(out, x.v[1].k).v) = Len(RowsOf(x))
               /\ QuotedCellsKept(QuotedCells(SplitLines(text)[2]),
                                  QuotedCells(SplitLines(text)[r + 2]),
                                  ObjGet(out, x.v[1].k).v[r])

\* A JSON value: null, a boolean, a number, a string, an array of JSON
\* values or an object of JSON values under distinct keys
RECURSIVE IsJsonValue(_)
IsJsonValue(v) ==
    /\ "t" \in DOMAIN v
    /\ v.t \in {"null", "bool", "num", "str", "arr", "obj"}
    /\ v.t = "bool" => v.v \in BOOLEAN
    /\ v.t = "num" => v.v \in Int \X Int
    /\ v.t = "str" => v.v \in Seq(STRING)
    /\ v.t = "arr" => \A i \in 1..Len(v.v) : IsJsonValue(v.v[i])
    /\ v.t = "obj" =>
          /\ \A i \in 1..Len(v.v) : IsJsonValue(v.v[i].v)
          /\ \A i, j \in 1..Len(v.v) : i # j => v.v[i].k # v.v[j].k

IsValidationResult(r) ==
    /\ r.valid \in BOOLEAN
    /\ \A e \in 1..Len(r.errors) :
          /\ DOMAIN r.errors[e] = {"line", "column", "message", "context"}
          /\ r.errors[e].line \in Nat \ {0}
          /\ r.errors[e].column \in Nat
          /\ Len(r.errors[e].message) > 0
          /\ Len(r.errors[e].context) > 0

\* C13: validate returns a result for every text, and the result is valid
\* exactly when its list of errors is empty
C13_ValidIffNoErrors ==
    pc = "validated" =>
        /\ res # NoResult
        /\ IsValidationResult(res)
        /\ res.valid <=> Len(res.errors) = 0

\* C13's case: a text with two faulty lines has been validated, and the
\* result is not valid and holds the two errors
C13_Witness ==
    /\ pc = "validated"
    /\ text = Join(<<<<"k",":">>, <<SP,SP,SP,"a",":",SP,"1">>,
                     <<SP,SP,"|",SP,"1",SP,"|",SP,"2">>>>, <<NL>>)
    /\ ~res.valid
    /\ Len(res.errors) = 2

\* The kinds of error, told by a word of the message as the tests tell them
IndentationWord == <<"i","n","d","e","n","t","a","t","i","o","n">>
MismatchWord == <<"m","i","s","m","a","t","c","h">>
TerminatorWord == <<"m","u","s","t",SP,"e","n","d">>

\* The result r holds an error for the line i whose message has the word
HasError(r, i, word) ==
    \E e \in 1..Len(r.errors) : r.errors[e].line = i /\ Includes(r.errors[e].message, word)

IsPipeLed(line) == ~IsBlankOrComment(line) /\ StartsWith(Trim(line), <<"|">>)

\* The first line of the run of the pipe-led line i: the earliest pipe-led
\* line with only pipe-led, blank and comment lines from it to line i
RunStart(lines, i) ==
    Min({j \in 1..i : /\ IsPipeLed(lines[j])
                      /\ \A k \in j..i : IsPipeLed(lines[k]) \/ IsBlankOrComment(lines[k])})

\* C15: a line gets a column-mismatch error exactly when it is pipe-led and
\* its pipe count differs from that of the first line of its run; a run
\* begins at the first pipe-led line of the text or after a line that is
\* not blank, not a comment and not pipe-led
C15_ColumnRule ==
    pc = "validated" =>
        \A i \in 1..Len(SplitLines(text)) :
            HasError(res, i, MismatchWord) <=>
                /\ IsPipeLed(SplitLines(text)[i])
                /\ Pipes(Trim(SplitLines(text)[i])) #
                     Pipes(Trim(SplitLines(text)[RunStart(SplitLines(text), i)]))

\* C15's case: a header of three pipes, a blank line and a row of two
\* pipes have been validated, and the row has the only error
C15_Witness ==
    /\ pc = "validated"
    /\ text = Join(<<<<SP,SP,"|",SP,"a",SP,"|",SP,"b",SP,"|">>, <<>>,
                     <<SP,SP,"|",SP,"1",SP,"|">>>>, <<NL>>)
    /\ Len(res.errors) = 1
    /\ res.errors[1].line = 3
    /\ res.errors[1].message = MismatchMessage(3, 2)

\* The arrays of a sequence of arrays, one after the other
RECURSIVE Flatten(_)
Flatten(seqs) == IF Len(seqs) = 0 THEN <<>> ELSE Head(seqs) \o Flatten(Tail(seqs))

\* The keys a line of a key-value block holds, left to right: none in a
\* table line, those after the dash of a list item, the word before a
\* colon and the keys of what follows it
RECURSIVE LineKeys(_)
LineKeys(trimmed) ==
    IF StartsWith(trimmed, <<"|">>) THEN <<>>
    ELSE IF StartsWith(trimmed, <<"-">>) THEN LineKeys(Trim(Tail(trimmed)))
    ELSE IF ~Includes(trimmed, <<":">>) THEN <<>>
    ELSE <<KeyAt(trimmed, IndexOf(trimmed, <<":">>))>>
           \o LineKeys(ValueAt(trimmed, IndexOf(trimmed, <<":">>)))

\* The keys of a text in the order it holds them
EmittedKeys(t) ==
    Flatten([i \in 1..Len(SplitLines(t)) |-> LineKeys(Trim(SplitLines(t)[i]))])

\* The keys of v and of what it holds, each object's before those of its
\* values, in the order of its entries or sorted; a table has no key-value
\* block
KeysOf(v, sorted) == IF sorted THEN SortStrings(ObjectKeys(v)) ELSE ObjectKeys(v)
RECURSIVE KeysInOrder(_, _)
KeysUnder(v, keys, sorted) ==
    Flatten([i \in 1..Len(keys) |-> <<keys[i]>> \o KeysInOrder(ObjGet(v, keys[i]), sorted)])
KeysInOrder(v, sorted) ==
    IF IsObj(v) THEN KeysUnder(v, KeysOf(v, sorted), sorted)
    ELSE IF IsArr(v) /\ ~isTableArray(v.v)
        THEN Flatten([i \in 1..Len(v.v) |-> KeysInOrder(v.v[i], sorted)])
    ELSE <<>>

\* C16 as stated: with sortKeys the keys of every key-value block, at every
\* depth, are emitted in ascending order, and without it in the order in
\* which they were inserted into the object
C16_KeysSortedOrInserted ==
    pc = "encoded" /\ doc # NoValue => EmittedKeys(text) = KeysInOrder(doc, opts.sortKeys)

\* C16 amended: with sortKeys the keys of every key-value block, at every
\* depth, are emitted in ascending order of their code units, and without
\* it in the order of Object.keys: the array indices first, in ascending
\* numeric order, then the other keys in the order they were inserted
C16_KeysSortedOrObjectKeys ==
    pc = "encoded" /\ doc # NoValue => EmittedKeys(text) = KeysInOrder(x, opts.sortKeys)

\* C16's case: the keys b and 9 and, under b, 10 and 9 were inserted in
\* this order and encoded with sortKeys: 9, b and, under b, 10, 9 come out
C16_Witness ==
    /\ pc = "encoded"
    /\ opts.sortKeys
    /\ ObjectKeys(doc) = <<<<"b">>, <<"9">>>>
    /\ IsObj(doc.v[1].v) /\ ObjectKeys(doc.v[1].v) = <<<<"1", "0">>, <<"9">>>>
    /\ EmittedKeys(text) = <<<<"9">>, <<"b">>, <<"1", "0">>, <<"9">>>>

\* Where a line has its pipes, and where it has them outside double quotes
\* (a backslash within quotes takes the next character with it)
PipePositions(line) == {i \in 1..Len(line) : line[i] = "|"}
RECURSIVE UnquotedPipesFrom(_, _, _)
UnquotedPipesFrom(s, i, quoted) ==
    IF i > Len(s) THEN {}
    ELSE IF quoted /\ s[i] = BS THEN UnquotedPipesFrom(s, i + 2, TRUE)
    ELSE IF s[i] = DQ THEN UnquotedPipesFrom(s, i + 1, ~quoted)
    ELSE (IF ~quoted /\ s[i] = "|" THEN {i} ELSE {}) \cup UnquotedPipesFrom(s, i + 1, quoted)
UnquotedPipes(line) == UnquotedPipesFrom(line, 1, FALSE)

\* C17 as stated: in every table of the text encode returns, each row
\* line has as many pipes as the header line, whatever the cells hold
C17_RowsHaveHeaderPipeCount ==
    pc \in {"encoded", "decoded"} =>
        \A i \in 1..Len(SplitLines(text)) :
            IsPipeLed(SplitLines(text)[i]) =>
                Pipes(Trim(SplitLines(text)[i])) =
                    Pipes(Trim(SplitLines(text)[RunStart(SplitLines(text), i)]))

\* C17 amended: in every table of the text encode returns, each row line
\* is as long as the header line and has pipes outside its quoted cells
\* exactly where the header line has its pipes, so that every cell is
\* padded to the width of its column; the pipes of a string cell stand
\* unescaped within its quotes
C17_RowsAlignOutsideQuotes ==
    pc \in {"encoded", "decoded"} =>
        \A i \in 1..Len(SplitLines(text)) :
            IsPipeLed(SplitLines(text)[i]) =>
                /\ Len(SplitLines(text)[i]) = Len(SplitLines(text)[RunStart(SplitLines(text), i)])
                /\ UnquotedPipes(SplitLines(text)[i]) =
                       PipePositions(SplitLines(text)[RunStart(SplitLines(text), i)])

\* C17's case: a table with the cells "a|b" and x has been encoded: the
\* row of "a|b" holds three pipes, the header and the other row two, and
\* the three lines are equally long
C17_Witness ==
    /\ pc = "encoded"
    /\ x = Obj(<<[k |-> <<"a">>,
                  v |-> Arr(<<ObjOf(<<<<"a">>>>, <<Str(<<"a", "|", "b">>)>>),
                              ObjOf(<<<<"a">>>>, <<Str(<<"x">>)>>)>>)]>>)
    /\ Pipes(SplitLines(text)[2]) = 2
    /\ Pipes(SplitLines(text)[3]) = 3
    /\ Pipes(SplitLines(text)[4]) = 2
    /\ Len(SplitLines(text)[3]) = Len(SplitLines(text)[2])
    /\ Len(SplitLines(text)[4]) = Len(SplitLines(text)[2])

\* The lines of a text: what stands between its line ends \r\n, \n and \r
RECURSIVE LinesOf(_, _)
LinesOf(t, line) ==
    IF Len(t) = 0 THEN <<line>>
    ELSE IF Len(t) >= 2 /\ t[1] = CR /\ t[2] = NL THEN <<line>> \o LinesOf(SubSeq(t, 3, Len(t)), <<>>)
    ELSE IF t[1] \in {CR, NL} THEN <<line>> \o LinesOf(Tail(t), <<>>)
    ELSE LinesOf(Tail(t), Append(line, t[1]))

\* A line that holds only whitespace, or whose first character that is not
\* whitespace is a #
IsBlankOrCommentLine(line) ==
    \A i \in 1..Len(line) :
        IsWS(line[i]) \/ \E j \in 1..i : line[j] = "#" /\ \A k \in 1..(j - 1) : IsWS(line[k])

\* C18: decode returns the empty object for every text whose lines are all
\* blank or comments, the empty text included
C18_EmptyInput ==
    pc = "decoded" /\ (\A l \in 1..Len(LinesOf(text, <<>>)) :
                           IsBlankOrCommentLine(LinesOf(text, <<>>)[l]))
        => out = Obj(<<>>)

\* C18's case: a text of a comment that holds a colon, an empty line and a
\* line of spaces, ended by \r\n, has been decoded to the empty object
C18_Witness ==
    /\ pc = "decoded"
    /\ text = <<"#",SP,"a",":",SP,"1", CR, NL, CR, NL, SP, SP>>
    /\ out = Obj(<<>>)

\* C19: whatever the keys of an object at the root, a first key _
\* included, decode(encode(x)) is an array exactly when x is an array
C19_RootTypePreserved ==
    pc = "decoded" /\ (IsObj(x) \/ IsArr(x)) => (IsArr(out) <=> IsArr(x))

\* An array that the claim makes a table: not empty, of objects only, with
\* one set of keys, every value a scalar
KeySet(obj) == {ObjectKeys(obj)[j] : j \in 1..Len(obj.v)}
IsEligible(arr) ==
    /\ Len(arr) > 0
    /\ \A i \in 1..Len(arr) : IsObj(arr[i])
    /\ \A i \in 1..Len(arr) : KeySet(arr[i]) = KeySet(arr[1])
    /\ \A i \in 1..Len(arr) : \A j \in 1..Len(arr[i].v) : isPrimitive(arr[i].v[j].v)

\* The text of a key holds a table, or a dash list, from its second line on
HoldsTable(t) == Len(SplitLines(t)) >= 2 /\ StartsWith(Trim(SplitLines(t)[2]), <<"|">>)
HoldsDashList(t) == Len(SplitLines(t)) >= 2 /\ StartsWith(Trim(SplitLines(t)[2]), <<"-">>)

\* C20: an array is encoded as a table exactly when it is not empty, all
\* its elements are objects with the same set of keys, keys with a comma
\* included, and all their values are scalars; any other array that is
\* neither empty nor of scalars only is encoded as a dash list
C20_TableEligibility ==
    pc = "encoded" /\ IsObj(x) /\ Len(x.v) = 1 /\ IsArr(x.v[1].v) =>
        /\ HoldsTable(text) <=> IsEligible(x.v[1].v.v)
        /\ (Len(x.v[1].v.v) > 0 /\ ~isPrimitiveArray(x.v[1].v.v) /\ ~IsEligible(x.v[1].v.v))
              => HoldsDashList(text)

\* C21: unescapeString(escapeString(s)) is s, and escapeString(s) holds
\* no raw newline and no raw carriage return
C21_EscapeRoundTrip ==
    /\ pc \in {"escaped", "unescaped"} => ~Includes(text, <<NL>>) /\ ~Includes(text, <<CR>>)
    /\ pc = "unescaped" => out = x

\* A text parsePrimitive does not return as it is: null, - or nothing,
\* true or false, one of the five symbols, a text in double quotes, a
\* decimal with an optional sign, fraction and exponent
IsSignedDecimal(s) == MatchesNumber(IF Len(s) > 0 /\ s[1] = "+" THEN Tail(s) ELSE s)
IsReadSpecially(s) ==
    \/ s \in {<<"n","u","l","l">>, <<"-">>, <<>>, <<"t","r","u","e">>, <<"f","a","l","s","e">>}
    \/ s \in {<<sym>> : sym \in Symbols}
    \/ IsQuotedText(s)
    \/ IsSignedDecimal(s)

\* C22: parsePrimitive returns null, a boolean, a number or a string; the
\* five symbols alone come back as another word; every other text that
\* is not read specially comes back as the trimmed text
C22_ParseFallsThrough ==
    pc = "parsed" =>
        /\ out.t \in {"null", "bool", "num", "str"}
        /\ Trim(text) \in {<<sym>> : sym \in Symbols} => out = Str(ReverseSymbol(Trim(text)))
        /\ ~IsReadSpecially(Trim(text)) => out = Str(Trim(text))

\* The line l of the text holds only `key:` at the root, and the line after
\* it holds the first entry of obj, indented by one unit
IsNestedLayout(lines, l, key, obj, unit) ==
    /\ lines[l] = key \o <<":">>
    /\ LeadingWS(lines[l + 1]) = unit
    /\ StartsWith(TrimStart(lines[l + 1]), obj.v[1].k \o <<":">>)

\* C23: for every key of the root whose value is an object with one key or
\* more, encode writes a line that holds only `key:` and, on the next
\* line, the first entry of the object one indent unit deeper
C23_NestedObjectLayout ==
    pc = "encoded" /\ IsObj(x) =>
        \A i \in 1..Len(x.v) :
            IsObj(x.v[i].v) /\ Len(x.v[i].v.v) > 0 =>
                \E l \in 1..(Len(SplitLines(text)) - 1) :
                    IsNestedLayout(SplitLines(text), l, x.v[i].k, x.v[i].v, IndentUnit(opts))

\* The last line before line p that is not blank, 0 when there is none
PreviousLine(lines, p) ==
    IF \E q \in 1..(p - 1) : Trim(lines[q]) # <<>>
    THEN Max({q \in 1..(p - 1) : Trim(lines[q]) # <<>>})
    ELSE 0

\* A key line, and one whose value is empty or []
IsKeyLine(line) ==
    /\ ~IsBlankOrComment(line)
    /\ ~StartsWith(Trim(line), <<"|">>)
    /\ Includes(Trim(line), <<":">>)
HasEmptyValue(line) ==
    ValueAt(Trim(line), IndexOf(Trim(line), <<":">>)) \in {<<>>, <<"[", "]">>}

\* C24 as stated: in a text for the object-block parser, an indented line
\* that is no table row and does not follow, past blank lines, a key with
\* an empty or [] value can be taken out without a change of what decode
\* returns
C24_StrayLineWithoutEffect ==
    pc = "decoded2" /\ IsForObjectParser(SplitLines(text))
       /\ ~StartsWith(Trim(ins.line), <<"|">>)
       /\ ~(/\ PreviousLine(SplitLines(text), ins.pos) # 0
            /\ IsKeyLine(SplitLines(text)[PreviousLine(SplitLines(text), ins.pos)])
            /\ HasEmptyValue(SplitLines(text)[PreviousLine(SplitLines(text), ins.pos)]))
    => JsonEq(out2, out)

\* C24 amended: a line that follows, past blank lines, a key line with a
\* value (not empty, not []) and is indented more than that key line can
\* be taken out without a change of what decode returns
C24_LineUnderValuedKeyWithoutEffect ==
    pc = "decoded2" /\ PreviousLine(SplitLines(text), ins.pos) # 0
       /\ IsKeyLine(SplitLines(text)[PreviousLine(SplitLines(text), ins.pos)])
       /\ ~HasEmptyValue(SplitLines(text)[PreviousLine(SplitLines(text), ins.pos)])
       /\ LeadingWS(ins.line) > LeadingWS(SplitLines(text)[PreviousLine(SplitLines(text), ins.pos)])
    => out2 = out

\* C24's case: from the keys b with the value 2 and k, the line `  a: 1`
\* under b, past a blank line, has been taken out, and both texts decode
\* to b = 2 and an empty k
C24_Witness ==
    /\ pc = "decoded2"
    /\ text = Join(<<<<"b",":",SP,"2">>, <<>>, <<SP,SP,"a",":",SP,"1">>, <<"k",":">>>>, <<NL>>)
    /\ ins.pos = 3
    /\ out = ObjOf(<<<<"b">>, <<"k">>>>, <<Num(2, 0), Obj(<<>>)>>)
    /\ out2 = out

\* C25: whatever the indent width an array or an object is encoded with,
\* decode returns what it returns for the encoding with the width 2
C25_DecodeSameAtEveryWidth ==
    pc = "decoded" => out = decode(encode(x, DefaultOptions), DecodeOptions)

\* The number of errors of r for the line i whose message has the word
ErrorCount(r, i, word) ==
    Cardinality({e \in 1..Len(r.errors) :
                    r.errors[e].line = i /\ Includes(r.errors[e].message, word)})

\* C26: the errors are in the order of their lines, each for a line of the
\* text that is neither blank nor a comment, each with that line as its
\* context, and with at most one error of each kind for a line
C26_ErrorRecords ==
    pc = "validated" =>
        /\ \A e \in 1..(Len(res.errors) - 1) : res.errors[e].line <= res.errors[e + 1].line
        /\ \A e \in 1..Len(res.errors) :
              /\ res.errors[e].line \in 1..Len(SplitLines(text))
              /\ ~IsBlankOrComment(SplitLines(text)[res.errors[e].line])
              /\ res.errors[e].context = SplitLines(text)[res.errors[e].line]
        /\ \A i \in 1..Len(SplitLines(text)) :
              \A word \in {IndentationWord, MismatchWord, TerminatorWord} :
                  ErrorCount(res, i, word) <= 1

\* C26's case: under a header of two columns and past a comment, an
\* unevenly indented row of one cell with no closing pipe carries the three
\* errors, all for line 3
C26_Witness ==
    /\ pc = "validated"
    /\ text = Join(<<<<SP,SP,"|",SP,"a",SP,"|",SP,"b",SP,"|">>, <<"#",SP,"c">>,
                     <<SP,SP,SP,"|",SP,"1">>>>, <<NL>>)
    /\ Len(res.errors) = 3
    /\ \A e \in 1..3 : res.errors[e].line = 3
    /\ \A word \in {IndentationWord, MismatchWord, TerminatorWord} :
          ErrorCount(res, 3, word) = 1

\* The cursors stay within the text: none is past the line after the last
CursorsInText ==
    pc = "parsing" =>
        \A d \in 1..Len(stack) : stack[d].i \in 1..(Len(inputLines) + 1)

\* A step of the parser moves on: a pass of the loop leaves the cursor of
\* its call further on, and past the header when it reads a table; a
\* nested call starts past the line of its caller's cursor; a nested call
\* that returns has moved past its start and leaves its caller's cursor
\* further on
CursorMovesOn ==
    pc = "parsing" /\ pc' = "parsing" =>
        /\ Len(stack') = Len(stack) =>
              /\ stack'[Len(stack)].i > stack[Len(stack)].i
              /\ ~IsSkipped(inputLines, stack[Len(stack)])
                   /\ FindsTable(inputLines, stack[Len(stack)])
                 => stack'[Len(stack)].i > NextIdx(inputLines, stack[Len(stack)])
        /\ Len(stack') = Len(stack) + 1 =>
              stack'[Len(stack')].i > stack[Len(stack)].i
        /\ Len(stack') = Len(stack) - 1 =>
              /\ stack[Len(stack)].i > stack[Len(stack)].start
              /\ stack'[Len(stack')].i > stack[Len(stack')].i

\* C27: decode comes to its end, with what decode returns; until then
\* every step leaves a cursor further on and no cursor leaves the text
C27_TerminationAndProgress ==
    /\ <>(pc = "decoded")
    /\ [](pc = "decoded" => out = decode(text, DecodeOptions))
    /\ []CursorsInText
    /\ [][CursorMovesOn]_vars

\* C27's case: the block under k holds a block under b; both have
\* returned and decode has ended
C27_Witness ==
    /\ pc = "decoded"
    /\ text = Join(<<<<"k",":">>, <<SP,SP,"b",":">>, <<SP,SP,SP,SP,"c",":",SP,"1">>,
                     <<"b",":",SP,"2">>>>, <<NL>>)
    /\ out = ObjOf(<<<<"k">>, <<"b">>>>,
                   <<ObjOf(<<<<"b">>>>, <<ObjOf(<<<<"c">>>>, <<Num(1, 0)>>)>>), Num(2, 0)>>)

\* C28: what encode writes with the default options for a value, strings
\* with a pipe in its table rows among them, is valid for validate
C28_EncodedIsValid ==
    pc = "validated" => res.valid

\* C29: in a text that validate finds valid, every line that parseTable
\* consumes after the header is a row of its result
C29_ValidTableKeepsRows ==
    pc = "tabled" /\ res.valid => Len(tbl.value.v) = tbl.endIndex - tbl.start

\* C29's case: under k, a header of two columns and a line of two cells;
\* the text is valid and the table read from line 2 on holds the one row
C29_Witness ==
    /\ pc = "tabled"
    /\ text = Join(<<<<"k",":">>, <<SP,SP,"|",SP,"a",SP,"|",SP,"b",SP,"|">>,
                     <<SP,SP,"|",SP,"a",SP,"|",SP,"b",SP,"|">>>>, <<NL>>)
    /\ res.valid
    /\ tbl.start = 2
    /\ tbl.endIndex = 3
    /\ Len(tbl.value.v) = 1

\* The lines at the indentation 0 that have a colon and start neither with
\* | nor with #
RootKeyLines(scanned) ==
    {l \in 1..Len(scanned) :
        scanned[l].indent = 0 /\ scanned[l].colon /\ ~scanned[l].pipe /\ ~scanned[l].comment}

\* The line c is the first that a block of the indentation base, read
\* from the line start on, does not consume: the lines before it are
\* blank, comments or indented by base or more, and c is past the last
\* line or a dedented line
FirstAfterBlock(scanned, start, c, base) ==
    /\ c \in (start + 1)..(Len(scanned) + 1)
    /\ \A j \in start..(c - 1) :
          scanned[j].empty \/ scanned[j].comment \/ scanned[j].indent >= base
    /\ c <= Len(scanned) =>
          ~scanned[c].empty /\ ~scanned[c].comment /\ scanned[c].indent < base

\* The line c is the first that the table with its header in the line h
\* does not consume: the lines between are table lines indented as the
\* header or more, and c is past the last line, no table line or less
\* indented
FirstAfterTable(scanned, h, c) ==
    /\ c \in (h + 1)..(Len(scanned) + 1)
    /\ \A j \in (h + 1)..(c - 1) :
          scanned[j].pipe /\ scanned[j].indent >= scanned[h].indent
    /\ c <= Len(scanned) =>
          ~scanned[c].pipe \/ scanned[c].indent < scanned[h].indent

\* A nested block that returns leaves its caller's cursor at the first
\* line it did not consume; the table read under a key returns, as its
\* endIndex, the line that lies offset lines before the first line it
\* did not consume, and the cursor goes to that first line
CursorAfterBlock(offset) ==
    pc = "parsing" /\ pc' = "parsing" =>
        /\ Len(stack') = Len(stack) - 1 =>
              FirstAfterBlock(inputLines, stack[Len(stack)].start, stack'[Len(stack')].i,
                              stack[Len(stack)].baseIndent)
        /\ Len(stack') = Len(stack) /\ ~IsSkipped(inputLines, stack[Len(stack)])
             /\ FindsTable(inputLines, stack[Len(stack)]) =>
              /\ FirstAfterTable(inputLines, NextIdx(inputLines, stack[Len(stack)]),
                                 inputLines[NextIdx(inputLines, stack[Len(stack)])]
                                     .table.endIndex + offset)
              /\ FirstAfterTable(inputLines, NextIdx(inputLines, stack[Len(stack)]),
                                 stack'[Len(stack)].i)

=============================================================================
